---------------------------- MODULE Spec2Model ----------------------------
(***************************************************************************)
(* A model of the RFP bid pipeline of rfp_ai_system: the Bid Viability     *)
(* Scorer (agents/scoring_agent.py), the Master Agent                      *)
(* (agents/master_agent.py), the Sales Agent (agents/sales_agent.py), the  *)
(* Technical Agent (agents/technical_agent.py), the Pricing Agent          *)
(* (agents/pricing_agent.py) and the graph that chains them (graph.py).    *)
(*                                                                         *)
(* Number representation.  Python floats are modelled in fixed point:      *)
(*   - match percentages and every value the code rounds to 2 decimals     *)
(*     are integers in units of 0.01;                                      *)
(*   - unrounded component scores are integers in units of 1e-5, the       *)
(*     unrounded final score and weighted contributions in units of 1e-7   *)
(*     (weights are kept as integer hundredths, so the weighted sum is     *)
(*     exact);                                                             *)
(*   - money is in units of 0.001 INR; 2-decimal money is a multiple of 10;*)
(*   - math.exp is evaluated by range reduction and a Taylor series at     *)
(*     scale 1e8.                                                          *)
(* round(x, 2) is round-half-even on the fixed-point value.                *)
(* Python dicts are functions; d.get(k, default) is Get(d, k, default).    *)
(* Text is a TLA+ string; substring tests and the regular expressions of   *)
(* the code are evaluated on its characters.                               *)
(***************************************************************************)
EXTENDS Integers, Sequences, FiniteSets, TLC

VARIABLES
    pc,       \* position of the run: the graph node about to execute, or call/return
    state,    \* the pipeline's state dict (graph.py: StateGraph(dict))
    args,     \* arguments of the call modelled; the inputs of a run of the graph
    frame,    \* locals of the function that ran last
    result    \* value returned by the call, or the exception it raised

vars == <<pc, state, args, frame, result>>

-----------------------------------------------------------------------------
(* Bounds of the model *)

MaxMatches == 2
MaxRfps == 2
MaxLineItems == 2

\* the most tenders one scraped site returns
MaxTenders == 2

\* the most phrases joined into one testing-requirements text
MaxPhrases == 2

-----------------------------------------------------------------------------
(* Generic helpers: dicts, sequences, strings, exact integer arithmetic *)

Get(d, k, default) == IF k \in DOMAIN d THEN d[k] ELSE default

EmptyDict == [k \in {} |-> 0]

\* dict d after d[k] = u[k] for every key k of u
Update(d, u) ==
    [k \in DOMAIN d \cup DOMAIN u |-> IF k \in DOMAIN u THEN u[k] ELSE d[k]]

\* Python's None
None == [None |-> TRUE]

\* not m, for a dict, a list or None
Falsy(m) == m = None \/ DOMAIN m = {}

Min(a, b) == IF a <= b THEN a ELSE b

Max(a, b) == IF a >= b THEN a ELSE b

Abs(a) == IF a >= 0 THEN a ELSE -a

RECURSIVE SumTo(_, _)
SumTo(s, n) == IF n = 0 THEN 0 ELSE s[n] + SumTo(s, n - 1)

SeqSum(s) == SumTo(s, Len(s))

Take(s, n) == SubSeq(s, 1, Min(n, Len(s)))

\* the list f[1], ..., f[n], with its elements evaluated
List(f, n) == SubSeq(f, 1, n)

RECURSIVE SeqsUpTo(_, _)
SeqsUpTo(S, n) ==
    IF n = 0 THEN {<<>>}
    ELSE LET shorter == SeqsUpTo(S, n - 1)
         IN shorter \cup {Append(s, x) : s \in {t \in shorter : Len(t) = n - 1}, x \in S}

\* the characters of the string s, as a list
Chars(s) == List([i \in 1..Len(s) |-> SubSeq(s, i, i)], Len(s))

\* Python's `sub in t`, for lists of characters
ContainsChars(sub, t) ==
    \E i \in 1..(Len(t) - Len(sub) + 1) : SubSeq(t, i, i + Len(sub) - 1) = sub

\* Python's `sub in t`, for a string literal sub and a list of characters t
Contains(sub, t) == ContainsChars(Chars(sub), t)

\* the largest of 1024, 16, 4, 2 whose product with c is below 2^31
DigitBase(c) ==
    IF c <= 2097151 THEN 1024
    ELSE IF c <= 134217727 THEN 16
    ELSE IF c <= 536870911 THEN 4
    ELSE 2

\* floor(a * b / c) and the remainder, without forming the product a * b
\* (long multiplication over the digits of b in base B).  Before each step
\* a * B^i = aq * c + ar and the sum so far is q * c + r.
RECURSIVE MulDivLoop(_, _, _, _, _, _, _)
MulDivLoop(b, aq, ar, q, r, c, B) ==
    IF aq >= 0 /\ ar >= 0 /\ q >= 0 /\ r >= 0
    THEN LET r1 == r + (b % B) * ar
             q1 == q + (b % B) * aq + (r1 \div c)
         IN IF b \div B = 0 THEN <<q1, r1 % c>>
            ELSE MulDivLoop(b \div B, B * aq + ((B * ar) \div c), (B * ar) % c,
                            q1, r1 % c, c, B)
    ELSE <<0, 0>>

\* floor(a * b / c); defined for a, b >= 0 and c > 0 only
MulDiv(a, b, c) ==
    CASE a >= 0 /\ b >= 0 /\ c > 0 ->
        IF a >= b THEN MulDivLoop(b, a \div c, a % c, 0, 0, c, DigitBase(c))[1]
        ELSE MulDivLoop(a, b \div c, b % c, 0, 0, c, DigitBase(c))[1]

\* a * b / c rounded to the nearest integer, as a float division rounds its
\* quotient; defined for a, b >= 0 and c > 0 only
MulDivNearest(a, b, c) ==
    CASE a >= 0 /\ b >= 0 /\ c > 0 ->
        LET qr == IF a >= b THEN MulDivLoop(b, a \div c, a % c, 0, 0, c, DigitBase(c))
                  ELSE MulDivLoop(a, b \div c, b % c, 0, 0, c, DigitBase(c))
        IN IF qr[2] >= c - qr[2] THEN qr[1] + 1 ELSE qr[1]

\* n / d rounded to the nearest integer, ties to even (Python's round)
RoundHalfEven(n, d) ==
    LET q == n \div d
        r == n % d
    IN IF 2 * r < d THEN q
       ELSE IF 2 * r > d THEN q + 1
       ELSE IF q % 2 = 0 THEN q ELSE q + 1

-----------------------------------------------------------------------------
(* math.exp *)

Micro == 1000000

ExpScale == 100000000

\* e^(-n) at scale 1e8 for integer n >= 0
ExpNegInt(n) ==
    CASE n = 0 -> 100000000
      [] n = 1 -> 36787944
      [] n = 2 -> 13533528
      [] n = 3 -> 4978707
      [] n = 4 -> 1831564
      [] n = 5 -> 673795
      [] n = 6 -> 247875
      [] n = 7 -> 91188
      [] n = 8 -> 33546
      [] n = 9 -> 12341
      [] n = 10 -> 4540
      [] n = 11 -> 1670
      [] n = 12 -> 614
      [] n = 13 -> 226
      [] n = 14 -> 83
      [] n = 15 -> 31
      [] n = 16 -> 11
      [] n = 17 -> 4
      [] n = 18 -> 2
      [] n = 19 -> 1
      [] OTHER -> 0

\* acc + sum_{j >= k} g^j / j!  given term = g^(k-1)/(k-1)!, all at scale 1e8,
\* for 0 <= g < 1
RECURSIVE ExpTaylor(_, _, _, _)
ExpTaylor(g, k, term, acc) ==
    IF term = 0 \/ k > 14 \/ acc < 0 THEN acc
    ELSE LET next == RoundHalfEven(MulDiv(term, g, ExpScale), k)
         IN ExpTaylor(g, k + 1, next, acc + next)

\* math.exp(-t) at scale 1e8, for t >= 0 given at scale 1e6:
\* e^(-t) = e^(-n) * e^g with n = ceil(t) and g = n - t in [0, 1)
ExpNeg(t) ==
    LET n == (t + Micro - 1) \div Micro
        g == (n * Micro - t) * (ExpScale \div Micro)
        eg == ExpTaylor(g, 1, ExpScale, ExpScale)
    IN MulDiv(ExpNegInt(n), eg, ExpScale)

\* the largest x (scale 1e6) for which math.exp(x) is a float; above it
\* math.exp raises OverflowError
ExpOverflowAt == 709782712

-----------------------------------------------------------------------------
(* str methods *)

LowerCh(c) ==
    CASE c = "A" -> "a" [] c = "B" -> "b" [] c = "C" -> "c" [] c = "D" -> "d"
      [] c = "E" -> "e" [] c = "F" -> "f" [] c = "G" -> "g" [] c = "H" -> "h"
      [] c = "I" -> "i" [] c = "J" -> "j" [] c = "K" -> "k" [] c = "L" -> "l"
      [] c = "M" -> "m" [] c = "N" -> "n" [] c = "O" -> "o" [] c = "P" -> "p"
      [] c = "Q" -> "q" [] c = "R" -> "r" [] c = "S" -> "s" [] c = "T" -> "t"
      [] c = "U" -> "u" [] c = "V" -> "v" [] c = "W" -> "w" [] c = "X" -> "x"
      [] c = "Y" -> "y" [] c = "Z" -> "z" [] OTHER -> c

\* str.lower(), as a list of characters
Lower(s) == List([i \in 1..Len(s) |-> LowerCh(SubSeq(s, i, i))], Len(s))

IsDigit(c) == c \in {"0", "1", "2", "3", "4", "5", "6", "7", "8", "9"}

IsLetter(c) == LowerCh(c) \in
    {"a", "b", "c", "d", "e", "f", "g", "h", "i", "j", "k", "l", "m",
     "n", "o", "p", "q", "r", "s", "t", "u", "v", "w", "x", "y", "z"}

\* the regular expression class \w
IsWord(c) == IsDigit(c) \/ IsLetter(c) \/ c = "_"

\* the regular expression class \s
IsSpace(c) == c = " "

-----------------------------------------------------------------------------
(* Reference data: the OEM product catalog (state["product_db"]) and the   *)
(* "Testing Services" sheet (state["test_services_db"]), as loaded by       *)
(* app.py.  Rows are in sheet order.  Prices are in units of 0.001 INR.     *)

ProductDB == <<
    [Product_ID |-> "P1", Product_Name |-> "HT XLPE Copper Cable",
     Category |-> "HT Cable", Voltage_Rating |-> "11 kV",
     Conductor_Material |-> "Copper", Insulation_Type |-> "XLPE",
     Number_of_Cores |-> "3 core", Armoring |-> "Armoured",
     Standards_Compliance |-> "IS 7098", BIS_Certified |-> "Yes",
     Unit_Price_INR_per_meter |-> 120000, Min_Order_Qty_Meters |-> 500,
     Lead_Time_Days |-> 30, Warranty_Years |-> 5],
    [Product_ID |-> "P2", Product_Name |-> "LT PVC Aluminium Cable",
     Category |-> "LT Cable", Voltage_Rating |-> "1.1 kV",
     Conductor_Material |-> "Aluminium", Insulation_Type |-> "PVC",
     Number_of_Cores |-> "4 core", Armoring |-> "Unarmoured",
     Standards_Compliance |-> "BS 5467", BIS_Certified |-> "No",
     Unit_Price_INR_per_meter |-> 85500, Min_Order_Qty_Meters |-> 1000,
     Lead_Time_Days |-> 60, Warranty_Years |-> 2],
    [Product_ID |-> "P3", Product_Name |-> "LT PVC Copper Cable",
     Category |-> "LT Cable", Voltage_Rating |-> "1.1 kV",
     Conductor_Material |-> "Copper", Insulation_Type |-> "PVC",
     Number_of_Cores |-> "2 core", Armoring |-> "Armoured",
     Standards_Compliance |-> "IEC 60502", BIS_Certified |-> "Yes",
     Unit_Price_INR_per_meter |-> 64125, Min_Order_Qty_Meters |-> 25,
     Lead_Time_Days |-> 10, Warranty_Years |-> 7]
>>

\* product_db[product_db['Product_ID'] == product_id]
ProductRows(product_db, product_id) ==
    SelectSeq(product_db, LAMBDA r : r.Product_ID = product_id)

-----------------------------------------------------------------------------
(* Time.  A datetime is a number of hours since an epoch; a date is the    *)
(* midnight that starts its day.  A deadline string is modelled by what    *)
(* the parsers make of it: falsy (None or ""), unparseable, or a date.     *)

\* datetime.now() / datetime.today(): day Today, NowHour hours after midnight
Today == 100

NowHour == 10

HoursPerDay == 24

Now == Today * HoursPerDay + NowHour

NoDeadline == [kind |-> "none", day |-> 0]

BadDeadline == [kind |-> "invalid", day |-> 0]

DateStr(d) == [kind |-> "date", day |-> d]

\* datetime.fromisoformat(s) for a date string s
Midnight(deadline) == deadline.day * HoursPerDay

\* timedelta.days: whole days, rounded toward minus infinity
TimedeltaDays(hours) == hours \div HoursPerDay

-----------------------------------------------------------------------------
(* RFPScorer (agents/scoring_agent.py).  A match is a dict with the keys   *)
(* product_id, spec_match_percent (units of 0.01) and category; a falsy    *)
(* list entry (None, {}) is EmptyDict.                                     *)

\* unrounded scores are in units of 1e-5
ScoreScale == 100000

Score100 == 100 * ScoreScale

\* RFPScorer.WEIGHTS, in hundredths
WEIGHTS == [technical_match |-> 35, price_competitiveness |-> 25,
            delivery_capability |-> 15, compliance |-> 15, risk_score |-> 10]

\* RFPScorer.IDEAL_MARGIN, at scale 1e6
IDEAL_MARGIN == 250000

\* the rows of the matches that are truthy and found in the catalog
FoundRows(product_db, matches) ==
    LET kept == SelectSeq(matches, LAMBDA m :
                    /\ ~Falsy(m)
                    /\ ProductRows(product_db, Get(m, "product_id", "")) # <<>>)
    IN List([i \in 1..Len(kept) |->
                [m |-> kept[i],
                 row |-> ProductRows(product_db, Get(kept[i], "product_id", ""))[1]]],
            Len(kept))

\* math.exp(-0.3 * i) at scale 1e8
DecayWeight(i) == ExpNeg(300000 * i)

\* Fault variant: the technical score without its cap at 100.
score_technical_match_uncapped(matches) ==
    LET valid == SelectSeq(matches, LAMBDA m :
                    ~Falsy(m) /\ Get(m, "spec_match_percent", 0) > 0)
        top == Take(valid, 5)
        w == List([i \in 1..Len(top) |-> DecayWeight(i - 1)], Len(top))
        total_weight == SeqSum(w)
        avg == SeqSum([i \in 1..Len(top) |->
                    MulDiv(top[i].spec_match_percent * 100000, w[i], total_weight)])
        good == Len(SelectSeq(valid, LAMBDA m : m.spec_match_percent >= 7000))
        multiplier == Min(100 + (good - 1) * 5, 115)
    IN IF valid = <<>> THEN 0
       ELSE RoundHalfEven(MulDiv(avg, multiplier, 100), 100)

score_technical_match(matches) ==
    LET valid == SelectSeq(matches, LAMBDA m :
                    ~Falsy(m) /\ Get(m, "spec_match_percent", 0) > 0)
        top == Take(valid, 5)
        w == List([i \in 1..Len(top) |-> DecayWeight(i - 1)], Len(top))
        total_weight == SeqSum(w)
        \* avg = sum(pct * w) / sum(w), in units of 1e-7
        avg == SeqSum([i \in 1..Len(top) |->
                    MulDiv(top[i].spec_match_percent * 100000, w[i], total_weight)])
        good == Len(SelectSeq(valid, LAMBDA m : m.spec_match_percent >= 7000))
        \* min(1.0 + (good - 1) * 0.05, 1.15), in hundredths
        multiplier == Min(100 + (good - 1) * 5, 115)
    IN IF valid = <<>> THEN 0
       ELSE Min(RoundHalfEven(MulDiv(avg, multiplier, 100), 100), Score100)

\* the sum of unit price x MOQ over the matched catalog products
ActualCost(product_db, matches) ==
    LET rows == FoundRows(product_db, matches)
    IN SeqSum([i \in 1..Len(rows) |->
            rows[i].row.Unit_Price_INR_per_meter * rows[i].row.Min_Order_Qty_Meters])

\* actual_cost after the fallback to 70% of the estimated price
CostOrFallback(product_db, estimated_price, matches) ==
    LET actual_cost == ActualCost(product_db, matches)
    IN IF actual_cost <= 0 THEN MulDiv(estimated_price, 70, 100) ELSE actual_cost

\* margin = (estimated_price - actual_cost) / estimated_price at scale 1e6,
\* for estimated_price > 0.  Margins below -100 are held at -100: math.exp
\* overflows for every one of them alike.
Margin(estimated_price, actual_cost) ==
    LET diff == estimated_price - actual_cost
    IN IF diff >= 0 THEN MulDivNearest(diff, Micro, estimated_price)
       ELSE IF (-diff) \div estimated_price >= 100 THEN -100 * Micro
       ELSE -MulDivNearest(-diff, Micro, estimated_price)

\* the argument 10 * (deviation - 0.10) of math.exp, at scale 1e6
LogisticArg(margin) == 10 * (Abs(margin - IDEAL_MARGIN) - 100000)

\* 100 / (1 + math.exp(x)), in units of 1e-5
Logistic(x) ==
    IF x >= 0
    THEN LET y == ExpNeg(x) IN MulDiv(100 * ScoreScale, y, ExpScale + y)
    ELSE LET y == ExpNeg(-x) IN MulDiv(100 * ScoreScale, ExpScale, ExpScale + y)

\* whether score_price_competitiveness raises OverflowError (math range error)
price_raises(product_db, estimated_price, matches) ==
    /\ estimated_price > 0
    /\ matches # <<>>
    /\ LogisticArg(Margin(estimated_price,
                          CostOrFallback(product_db, estimated_price, matches)))
           > ExpOverflowAt

score_price_competitiveness(product_db, estimated_price, matches) ==
    IF estimated_price <= 0 \/ matches = <<>> THEN 0
    ELSE LET margin == Margin(estimated_price,
                              CostOrFallback(product_db, estimated_price, matches))
             score == Logistic(LogisticArg(margin))
             penalised == IF margin < 50000 THEN MulDiv(score, 5, 10)
                          ELSE IF margin > 500000 THEN MulDiv(score, 6, 10)
                          ELSE score
         IN Max(0, Min(penalised, Score100))

\* whether the deadline penalty applies: avg_lt > days * 0.7, where avg_lt is
\* total_lt / total_w, or 30 when total_w is 0
DeadlinePenalty(total_lt, total_w, deadline) ==
    /\ deadline.kind = "date"
    /\ LET days == TimedeltaDays(Midnight(deadline) - Now)
       IN IF total_w > 0 THEN 10 * total_lt > 7 * days * total_w
          ELSE 10 * 30 > 7 * days

\* the sums total_lt (lead time x match weight) and total_w (match weight)
LeadTimeTotals(product_db, matches) ==
    LET rows == FoundRows(product_db, matches)
    IN [lt |-> SeqSum([i \in 1..Len(rows) |->
                    rows[i].row.Lead_Time_Days
                        * Get(rows[i].m, "spec_match_percent", 0)]),
        w |-> SeqSum([i \in 1..Len(rows) |->
                    Get(rows[i].m, "spec_match_percent", 0)])]

\* Fault variant: the delivery score without the deadline penalty.
score_delivery_capability_no_penalty(product_db, matches, deadline) ==
    LET t == LeadTimeTotals(product_db, matches)
        avg_lt == IF t.w > 0 THEN MulDiv(t.lt, ScoreScale, t.w)
                  ELSE 30 * ScoreScale
        base == Max(40 * ScoreScale,
                    Score100 - ((avg_lt - 15 * ScoreScale) * 8) \div 10)
    IN IF matches = <<>> THEN 0
       ELSE Max(0, Min(base, Score100))

score_delivery_capability(product_db, matches, deadline) ==
    LET t == LeadTimeTotals(product_db, matches)
        \* avg_lt in units of 1e-5 days
        avg_lt == IF t.w > 0 THEN MulDiv(t.lt, ScoreScale, t.w)
                  ELSE 30 * ScoreScale
        \* max(40, 100 - (avg_lt - 15) * 0.8)
        base == Max(40 * ScoreScale,
                    Score100 - ((avg_lt - 15 * ScoreScale) * 8) \div 10)
        penalised == IF DeadlinePenalty(t.lt, t.w, deadline)
                     THEN (base * 7) \div 10 ELSE base
    IN IF matches = <<>> THEN 0
       ELSE Max(0, Min(penalised, Score100))

score_compliance(product_db, matches) ==
    LET rows == FoundRows(product_db, matches)
        total == Len(rows)
        bis == Len(SelectSeq(rows, LAMBDA r : Lower(r.row.BIS_Certified) = Chars("yes")))
        standards == Len(SelectSeq(rows, LAMBDA r :
                        \E k \in {"is", "iec", "ieee", "iso"} :
                            Contains(k, Lower(r.row.Standards_Compliance))))
        warranty_sum == SeqSum([i \in 1..Len(rows) |->
                            Min(rows[i].row.Warranty_Years, 5)])
    IN IF matches = <<>> \/ total = 0 THEN 0
       ELSE Min(MulDiv(40 * bis + 40 * standards + 4 * warranty_sum,
                       ScoreScale, total),
                Score100)

\* Fault variant: the risk score without its early return for an empty list.
score_risk_assessment_unguarded(product_db, matches, estimated_price) ==
    LET availability == Min(Len(matches) * 20, 50)
        categories == {Get(matches[i], "category", "Unknown") :
                          i \in {j \in 1..Len(matches) : ~Falsy(matches[j])}}
        diversity == Min(Cardinality(categories) * 15, 30)
        rows == FoundRows(product_db, matches)
        high_moq == Len(SelectSeq(rows, LAMBDA r : r.row.Min_Order_Qty_Meters > 500))
        consistency == Max(20 - high_moq * 5, 0)
    IN Min((availability + diversity + consistency) * ScoreScale, Score100)

score_risk_assessment(product_db, matches, estimated_price) ==
    LET availability == Min(Len(matches) * 20, 50)
        categories == {Get(matches[i], "category", "Unknown") :
                          i \in {j \in 1..Len(matches) : ~Falsy(matches[j])}}
        diversity == Min(Cardinality(categories) * 15, 30)
        rows == FoundRows(product_db, matches)
        high_moq == Len(SelectSeq(rows, LAMBDA r : r.row.Min_Order_Qty_Meters > 500))
        consistency == Max(20 - high_moq * 5, 0)
    IN IF matches = <<>> THEN 0
       ELSE Min((availability + diversity + consistency) * ScoreScale, Score100)

\* weighted scores and the unrounded final score are in units of 1e-7
FinalScale == 10000000

\* Fault variant: the B+ band starting at 60 instead of 65.
GradeShifted(final) ==
    IF final >= 85 * FinalScale THEN "A+ (Excellent)"
    ELSE IF final >= 75 * FinalScale THEN "A (Very Good)"
    ELSE IF final >= 60 * FinalScale THEN "B+ (Good)"
    ELSE IF final >= 55 * FinalScale THEN "B (Satisfactory)"
    ELSE IF final >= 45 * FinalScale THEN "C (Marginal)"
    ELSE "D (Poor)"

Grade(final) ==
    IF final >= 85 * FinalScale THEN "A+ (Excellent)"
    ELSE IF final >= 75 * FinalScale THEN "A (Very Good)"
    ELSE IF final >= 65 * FinalScale THEN "B+ (Good)"
    ELSE IF final >= 55 * FinalScale THEN "B (Satisfactory)"
    ELSE IF final >= 45 * FinalScale THEN "C (Marginal)"
    ELSE "D (Poor)"

\* Fault variant: the price component is inspected before the technical one.
RecommendationPriceFirst(final, tech, price) ==
    IF final >= 75 * FinalScale THEN "STRONGLY RECOMMEND"
    ELSE IF final >= 60 * FinalScale
         THEN IF price < 60 * ScoreScale THEN "CONDITIONAL - Pricing optimisation"
              ELSE IF tech < 60 * ScoreScale THEN "CONDITIONAL - Technical gaps"
              ELSE "RECOMMEND"
    ELSE IF final >= 45 * FinalScale THEN "CAUTION"
    ELSE "DO NOT PURSUE"

Recommendation(final, tech, price) ==
    IF final >= 75 * FinalScale THEN "STRONGLY RECOMMEND"
    ELSE IF final >= 60 * FinalScale
         THEN IF tech < 60 * ScoreScale THEN "CONDITIONAL - Technical gaps"
              ELSE IF price < 60 * ScoreScale THEN "CONDITIONAL - Pricing optimisation"
              ELSE "RECOMMEND"
    ELSE IF final >= 45 * FinalScale THEN "CAUTION"
    ELSE "DO NOT PURSUE"

\* round(x, 2) of an unrounded score (units 1e-5) and of a weighted score or
\* final score (units 1e-7), in units of 0.01
Round2Score(x) == RoundHalfEven(x, ScoreScale \div 100)

\* Fault variant: weighted scores rounded to one decimal instead of two.
Round1Final(x) == 10 * RoundHalfEven(x, FinalScale \div 10)

Round2Final(x) == RoundHalfEven(x, FinalScale \div 100)

\* Fault variant: a final score that weighs the five factors equally.
ScoreLocalsEqualWeights(product_db, matches, estimated_price, rfp_deadline) ==
    LET tech == score_technical_match(matches)
        price == score_price_competitiveness(product_db, estimated_price, matches)
        delivery == score_delivery_capability(product_db, matches, rfp_deadline)
        comply == score_compliance(product_db, matches)
        risk == score_risk_assessment(product_db, matches, estimated_price)
    IN [tech |-> tech, price |-> price, delivery |-> delivery,
        comply |-> comply, risk |-> risk,
        final |-> 20 * (tech + price + delivery + comply + risk)]

\* the locals tech, price, delivery, comply, risk and final
ScoreLocals(product_db, matches, estimated_price, rfp_deadline) ==
    LET tech == score_technical_match(matches)
        price == score_price_competitiveness(product_db, estimated_price, matches)
        delivery == score_delivery_capability(product_db, matches, rfp_deadline)
        comply == score_compliance(product_db, matches)
        risk == score_risk_assessment(product_db, matches, estimated_price)
    IN [tech |-> tech, price |-> price, delivery |-> delivery,
        comply |-> comply, risk |-> risk,
        final |-> tech * WEIGHTS.technical_match
                  + price * WEIGHTS.price_competitiveness
                  + delivery * WEIGHTS.delivery_capability
                  + comply * WEIGHTS.compliance
                  + risk * WEIGHTS.risk_score]

\* the dict calculate_final_score returns, from its locals
ScoreDict(l) ==
    [final_score |-> Round2Final(l.final),
     grade |-> Grade(l.final),
     \* round(final / 100, 4), in units of 1e-4
     normalized_score |-> Round2Final(l.final),
     component_scores |->
        [technical_match |-> Round2Score(l.tech),
         price_competitiveness |-> Round2Score(l.price),
         delivery_capability |-> Round2Score(l.delivery),
         compliance |-> Round2Score(l.comply),
         risk_assessment |-> Round2Score(l.risk)],
     weighted_contributions |->
        [technical_match |-> Round2Final(l.tech * WEIGHTS.technical_match),
         price_competitiveness |-> Round2Final(l.price * WEIGHTS.price_competitiveness),
         delivery_capability |-> Round2Final(l.delivery * WEIGHTS.delivery_capability),
         compliance |-> Round2Final(l.comply * WEIGHTS.compliance),
         risk_assessment |-> Round2Final(l.risk * WEIGHTS.risk_score)],
     recommendation |-> Recommendation(l.final, l.tech, l.price)]

calculate_final_score(product_db, matches, estimated_price, rfp_deadline) ==
    ScoreDict(ScoreLocals(product_db, matches, estimated_price, rfp_deadline))

-----------------------------------------------------------------------------
(* _quick_match_rfp and score_single_rfp (agents/scoring_agent.py) *)

\* re.sub(r'[^\w\s]', ' ', t)
SubNonWordSpace(t) ==
    List([i \in 1..Len(t) |-> IF IsWord(t[i]) \/ IsSpace(t[i]) THEN t[i] ELSE " "],
         Len(t))

\* re.sub(r'[^\w]', '', t)
DropNonWord(t) == SelectSeq(t, IsWord)

\* t.replace(" ", "")
DropSpaces(t) == SelectSeq(t, LAMBDA c : c # " ")

\* the index after the longest run of digits that starts at i
DigitsEnd(t, i) ==
    CHOOSE j \in i..(Len(t) + 1) :
        /\ \A k \in i..(j - 1) : IsDigit(t[k])
        /\ j = Len(t) + 1 \/ ~IsDigit(t[j])

\* the index after the longest run of white space that starts at i
SpacesEnd(t, i) ==
    CHOOSE j \in i..(Len(t) + 1) :
        /\ \A k \in i..(j - 1) : IsSpace(t[k])
        /\ j = Len(t) + 1 \/ ~IsSpace(t[j])

\* \s*(?:kv|v\b) at position j: the index after the match, or 0
UnitEnd(t, j) ==
    LET k == SpacesEnd(t, j)
    IN IF k + 1 <= Len(t) /\ t[k] = "k" /\ t[k + 1] = "v" THEN k + 2
       ELSE IF k <= Len(t) /\ t[k] = "v"
               /\ (k = Len(t) \/ ~IsWord(t[k + 1])) THEN k + 1
       ELSE 0

\* (\d+(?:\.\d+)?)\s*(?:kv|v\b) anchored at i: the index after the match, or 0
VoltageEnd(t, i) ==
    IF ~(i <= Len(t) /\ IsDigit(t[i])) THEN 0
    ELSE LET d == DigitsEnd(t, i)
             frac == IF d + 1 <= Len(t) /\ t[d] = "." /\ IsDigit(t[d + 1])
                     THEN DigitsEnd(t, d + 1) ELSE 0
         IN IF frac # 0 /\ UnitEnd(t, frac) # 0 THEN UnitEnd(t, frac)
            ELSE UnitEnd(t, d)

\* re.search(...).group(0).replace(" ", ""), or the empty list when there is
\* no match
VoltageToken(t) ==
    LET starts == {i \in 1..Len(t) : VoltageEnd(t, i) # 0}
        first == CHOOSE i \in starts : \A j \in starts : i <= j
    IN IF starts = {} THEN <<>>
       ELSE DropSpaces(SubSeq(t, first, VoltageEnd(t, first) - 1))

\* list.sort(key=..., reverse=True) of s, where key[i] is the key of s[i]:
\* descending, equal keys keep their order
SortDescBy(s, key) ==
    LET n == Len(s)
        rank(i) == Cardinality({j \in 1..n :
                        key[j] > key[i] \/ (key[j] = key[i] /\ j < i)}) + 1
    IN List([p \in 1..n |-> s[CHOOSE i \in 1..n : rank(i) = p]], n)

\* combined_text, as a list of characters
CombinedText(rfp) ==
    SubNonWordSpace(Lower(Get(rfp, "scope_of_supply", "")) \o <<" ">>
                    \o Lower(Get(rfp, "technical_specifications", "")))

\* the counters (score, total) of one catalog row
QuickScore(text, rfp_voltage, row) ==
    LET has(keywords) == \E k \in keywords : Contains(k, text)
        prod_v == DropNonWord(Lower(row.Voltage_Rating))
        material == Lower(row.Conductor_Material)
        insulation == Lower(row.Insulation_Type)
        volt == IF rfp_voltage = <<>> THEN <<0, 0>>
                ELSE IF ContainsChars(rfp_voltage, prod_v)
                        \/ ContainsChars(prod_v, rfp_voltage)
                     THEN <<1, 1>> ELSE <<0, 1>>
        cond == IF has({"copper", "cu "})
                THEN (IF Contains("copper", material) THEN <<1, 1>> ELSE <<0, 1>>)
                ELSE IF has({"aluminium", "aluminum", "al "})
                THEN (IF Contains("alum", material) \/ Contains("al", material)
                      THEN <<1, 1>> ELSE <<0, 1>>)
                ELSE <<0, 0>>
        insul == IF has({"xlpe", "cross linked"})
                 THEN (IF Contains("xlpe", insulation) THEN <<1, 1>> ELSE <<0, 1>>)
                 ELSE IF has({"pvc"})
                 THEN (IF Contains("pvc", insulation) THEN <<1, 1>> ELSE <<0, 1>>)
                 ELSE <<0, 0>>
    IN [score |-> volt[1] + cond[1] + insul[1],
        total |-> volt[2] + cond[2] + insul[2]]

\* round((score / total) * 100, 2), in units of 0.01
Percent(score, total) == RoundHalfEven(score * 10000, total)

\* the counters of every catalog row, in catalog order
QuickCounts(text, product_db) ==
    LET rfp_voltage == VoltageToken(text)
    IN List([i \in 1..Len(product_db) |->
                QuickScore(text, rfp_voltage, product_db[i])], Len(product_db))

\* the matches the loop appends: one per catalog row with a positive percentage
QuickMatches(counted, product_db) ==
    LET listed == SelectSeq([i \in 1..Len(product_db) |-> i], LAMBDA i :
                        /\ counted[i].total # 0
                        /\ Percent(counted[i].score, counted[i].total) > 0)
    IN List([n \in 1..Len(listed) |->
                [product_id |-> product_db[listed[n]].Product_ID,
                 spec_match_percent |->
                    Percent(counted[listed[n]].score, counted[listed[n]].total),
                 category |-> product_db[listed[n]].Category,
                 bis_certified |-> product_db[listed[n]].BIS_Certified]],
            Len(listed))

\* Fault variant: the sorted list is returned whole.
TopMatchesAll(matches) ==
    SortDescBy(matches, List([n \in 1..Len(matches) |->
                                matches[n].spec_match_percent], Len(matches)))

\* matches.sort(key=spec_match_percent, reverse=True); matches[:10]
TopMatches(matches) ==
    Take(SortDescBy(matches, List([n \in 1..Len(matches) |->
                                     matches[n].spec_match_percent],
                                 Len(matches))), 10)

_quick_match_rfp(rfp, product_db) ==
    TopMatches(QuickMatches(QuickCounts(CombinedText(rfp), product_db), product_db))

\* Fault variant: the estimate adds a flat 25000 INR to the catalog cost
\* instead of 25%.
EstimatedPriceFlat(product_db, matches) ==
    ActualCost(product_db, matches) + 25000000

\* the estimated price of score_single_rfp: 1.25 x the catalog cost of the matches
EstimatedPrice(product_db, matches) ==
    MulDiv(ActualCost(product_db, matches), 125, 100)

\* the exception math.exp raises
OverflowError == [raised |-> "OverflowError"]

\* what RFPScorer().calculate_final_score gives for the matches found: the
\* score dict, or the OverflowError it raises
ScoreOfMatches(product_db, matches, rfp_deadline) ==
    IF price_raises(product_db, EstimatedPrice(product_db, matches), matches)
    THEN OverflowError
    ELSE calculate_final_score(product_db, matches,
                               EstimatedPrice(product_db, matches), rfp_deadline)

score_single_rfp(rfp, product_db) ==
    ScoreOfMatches(product_db, _quick_match_rfp(rfp, product_db),
                   Get(rfp, "submissionDeadline", NoDeadline))

-----------------------------------------------------------------------------
(* RFPScorer.calculate_final_score on its own.  args holds the call's       *)
(* arguments, frame its locals and result what the call produced: the      *)
(* returned dict, or the exception it raised.                               *)

Match(product_id, pct, category) ==
    [product_id |-> product_id, spec_match_percent |-> pct, category |-> category]

\* the entries the match lists are built from: catalog products at several
\* match percentages, a product missing from the catalog, a dict without the
\* optional keys and a falsy entry
MatchPool ==
    {Match("P1", 10000, "HT Cable"), Match("P1", 5000, "HT Cable"),
     Match("P2", 6667, "LT Cable"), Match("P3", 3333, "LT Cable"),
     Match("P3", 7000, "LT Cable"), Match("PX", 5000, "Other"),
     Match("P1", 0, "HT Cable"), [product_id |-> "P2"], EmptyDict}

\* a list of seven matches, longer than the five the technical score reads
SevenMatches ==
    <<Match("P2", 3333, "LT Cable"), Match("P3", 6667, "LT Cable"),
      Match("P2", 10000, "LT Cable"), Match("P1", 5000, "HT Cable"),
      Match("P3", 6667, "LT Cable"), Match("P2", 10000, "LT Cable"),
      Match("P3", 6667, "LT Cable")>>

MatchLists == SeqsUpTo(MatchPool, MaxMatches) \cup {SevenMatches}

\* estimated prices in units of 0.001 INR, from negative to 200000 INR; at
\* 110875 INR one match of P1 at 100 percent scores just below 75
Prices == {-1000, 0, 100000, 2003906, 75000000, 80000000, 110875000, 200000000}

Deadlines == {NoDeadline, BadDeadline, DateStr(Today - 3), DateStr(Today),
              DateStr(Today + 5), DateStr(Today + 60)}

InitScorer ==
    /\ pc = "calculate_final_score"
    /\ state = [product_db |-> ProductDB]
    /\ args \in [matches : MatchLists, estimated_price : Prices,
                 rfp_deadline : Deadlines]
    /\ frame = EmptyDict
    /\ result = None


CalculateFinalScore ==
    /\ pc = "calculate_final_score"
    /\ pc' = "returned"
    /\ IF price_raises(state.product_db, args.estimated_price, args.matches)
       THEN /\ frame' = [tech |-> score_technical_match(args.matches)]
            /\ result' = OverflowError
       ELSE /\ frame' = ScoreLocals(state.product_db, args.matches,
                                    args.estimated_price, args.rfp_deadline)
            /\ result' = ScoreDict(frame')
    /\ UNCHANGED <<state, args>>

NextScorer == CalculateFinalScore

SpecScorer == InitScorer /\ [][NextScorer]_vars

\* calculate_final_score has returned a score dict
ScoreReturned == pc = "returned" /\ "final_score" \in DOMAIN result

Factors == {"technical_match", "price_competitiveness", "delivery_capability",
            "compliance", "risk_assessment"}

\* the fixed weights of the five factors, in hundredths
FactorWeight(f) ==
    CASE f = "technical_match" -> 35
      [] f = "price_competitiveness" -> 25
      [] f = "delivery_capability" -> 15
      [] f = "compliance" -> 15
      [] f = "risk_assessment" -> 10

RECURSIVE SumOver(_, _)
\* the sum of g[x] over the elements x of S
SumOver(g, S) ==
    IF S = {} THEN 0
    ELSE LET x == CHOOSE y \in S : TRUE IN g[x] + SumOver(g, S \ {x})

\* C3: every component score a call returns, unrounded or as reported, lies
\* in [0, 100], and so does the final score, for every match list, estimated
\* price and deadline.
C3_ScoresInRange ==
    ScoreReturned =>
        /\ \A k \in {"tech", "price", "delivery", "comply", "risk"} :
                0 <= frame[k] /\ frame[k] <= 100 * ScoreScale
        /\ 0 <= frame.final /\ frame.final <= 100 * FinalScale
        /\ \A f \in Factors : result.component_scores[f] \in 0..10000
        /\ result.final_score \in 0..10000

\* two strong matches: the technical average 100 times the multiplier 1.05 is
\* held at 100, and the compliance score reaches 100
C3_Witness ==
    /\ ScoreReturned
    /\ Len(args.matches) = 2
    /\ \A i \in 1..2 : Get(args.matches[i], "spec_match_percent", 0) = 10000
    /\ frame.tech = 100 * ScoreScale
    /\ frame.comply = 100 * ScoreScale
    /\ frame.price > 0

\* C4: the reported final_score differs by at most 0.01 from the sum of the
\* reported component scores times their weights 0.35/0.25/0.15/0.15/0.10.
\* Both sides are in units of 1e-4.
C4_FinalIsWeightedSum ==
    ScoreReturned =>
        Abs(100 * result.final_score
            - SumOver([f \in Factors |->
                          result.component_scores[f] * FactorWeight(f)], Factors))
            <= 100

\* a returned score whose components were rounded: the two sides differ
C4_Witness ==
    /\ ScoreReturned
    /\ result.final_score > 0
    /\ 100 * result.final_score
         # SumOver([f \in Factors |->
                       result.component_scores[f] * FactorWeight(f)], Factors)

\* the distance, in units of 0.01, of the reported final_score from the sum
\* of the five reported weighted_contributions
ContributionGap ==
    Abs(result.final_score - SumOver(result.weighted_contributions, Factors))

\* C5 as stated: the reported final_score equals the sum of the five reported
\* weighted_contributions within 0.01.
C5_AsStated == ScoreReturned => ContributionGap <= 1

\* C5, amended: the reported final_score differs from the sum of the five
\* reported weighted_contributions by at most 0.02.
C5_SumOfContributions == ScoreReturned => ContributionGap <= 2

\* seven matches: the roundings of the contributions add up to a gap of 0.02
C5_Witness == ScoreReturned /\ ContributionGap = 2

\* C6: the grade is A+ iff final >= 85, A iff 75 <= final < 85, B+ iff
\* 65 <= final < 75, B iff 55 <= final < 65, C iff 45 <= final < 55 and D iff
\* final < 45, where final is the unrounded final score.
C6_GradePartition ==
    ScoreReturned =>
        LET final == frame.final
            grade == result.grade
        IN /\ grade = "A+ (Excellent)" <=> final >= 85 * FinalScale
           /\ grade = "A (Very Good)"
                <=> (75 * FinalScale <= final /\ final < 85 * FinalScale)
           /\ grade = "B+ (Good)"
                <=> (65 * FinalScale <= final /\ final < 75 * FinalScale)
           /\ grade = "B (Satisfactory)"
                <=> (55 * FinalScale <= final /\ final < 65 * FinalScale)
           /\ grade = "C (Marginal)"
                <=> (45 * FinalScale <= final /\ final < 55 * FinalScale)
           /\ grade = "D (Poor)" <=> final < 45 * FinalScale

\* a score in the lower part of the B band, between 60 and 65
C6_Witness ==
    /\ ScoreReturned
    /\ result.grade = "B (Satisfactory)"
    /\ frame.final >= 60 * FinalScale

\* C7: with an empty match list the call returns, for every estimated price
\* and deadline, a dict with all five component scores 0, final_score 0.0
\* and grade "D (Poor)"; it raises nothing.
C7_EmptyMatches ==
    (pc = "returned" /\ args.matches = <<>>) =>
        /\ ScoreReturned
        /\ \A f \in Factors : result.component_scores[f] = 0
        /\ \A k \in {"tech", "price", "delivery", "comply", "risk"} : frame[k] = 0
        /\ result.final_score = 0
        /\ result.grade = "D (Poor)"

\* the empty list scored with a positive price and a deadline already past
C7_Witness ==
    /\ ScoreReturned
    /\ args.matches = <<>>
    /\ args.estimated_price > 0
    /\ args.rfp_deadline = DateStr(Today - 3)

\* C25: the recommendation is STRONGLY RECOMMEND iff final >= 75; for
\* 60 <= final < 75 it is CONDITIONAL (technical gaps) iff tech < 60,
\* CONDITIONAL (pricing) iff tech >= 60 and price < 60, and RECOMMEND
\* otherwise; it is CAUTION iff 45 <= final < 60 and DO NOT PURSUE iff
\* final < 45, where final, tech and price are the unrounded scores.
C25_RecommendationPartition ==
    ScoreReturned =>
        LET final == frame.final
            rec == result.recommendation
            middle == 60 * FinalScale <= final /\ final < 75 * FinalScale
        IN /\ rec = "STRONGLY RECOMMEND" <=> final >= 75 * FinalScale
           /\ rec = "CONDITIONAL - Technical gaps"
                <=> (middle /\ frame.tech < 60 * ScoreScale)
           /\ rec = "CONDITIONAL - Pricing optimisation"
                <=> (middle /\ frame.tech >= 60 * ScoreScale
                            /\ frame.price < 60 * ScoreScale)
           /\ rec = "RECOMMEND"
                <=> (middle /\ frame.tech >= 60 * ScoreScale
                            /\ frame.price >= 60 * ScoreScale)
           /\ rec = "CAUTION"
                <=> (45 * FinalScale <= final /\ final < 60 * FinalScale)
           /\ rec = "DO NOT PURSUE" <=> final < 45 * FinalScale

\* a score between 60 and 75 with both the technical and the price component
\* below 60: the technical message is given
C25_Witness ==
    /\ ScoreReturned
    /\ frame.final >= 60 * FinalScale
    /\ frame.tech < 60 * ScoreScale
    /\ frame.price < 60 * ScoreScale
    /\ result.recommendation = "CONDITIONAL - Technical gaps"

\* the lowest final score of each grade, in units of 0.01
GradeFloor ==
    [g \in {"A+ (Excellent)", "A (Very Good)", "B+ (Good)", "B (Satisfactory)",
            "C (Marginal)", "D (Poor)"} |->
        CASE g = "A+ (Excellent)" -> 8500
          [] g = "A (Very Good)" -> 7500
          [] g = "B+ (Good)" -> 6500
          [] g = "B (Satisfactory)" -> 5500
          [] g = "C (Marginal)" -> 4500
          [] OTHER -> 0]

\* C28 as stated: the grade is the one of the band of the reported
\* final_score: a reported final_score of at least 85 has grade A+, of at
\* least 75 grade A or better, and so on for 65, 55 and 45.
C28_GradeMatchesReportedScore ==
    ScoreReturned =>
        \A g \in DOMAIN GradeFloor :
            result.final_score >= GradeFloor[g] =>
                GradeFloor[result.grade] >= GradeFloor[g]

\* what the code does: an unrounded score just below the floor of a band is
\* reported as the floor, with the grade of the band below
C28_RoundedUpAcrossBand ==
    /\ ScoreReturned
    /\ \E g \in DOMAIN GradeFloor :
          /\ result.final_score = GradeFloor[g]
          /\ frame.final < GradeFloor[g] * (FinalScale \div 100)
          /\ GradeFloor[result.grade] < GradeFloor[g]

-----------------------------------------------------------------------------
(* The compiled graph (graph.py) *)

\* Fault variant: the edge out of technical skips the pricing node.
NextNodeSkipsPricing(node) ==
    CASE node = "sales" -> "master_start"
      [] node = "master_start" -> "technical"
      [] node = "technical" -> "master_consolidate"
      [] node = "pricing" -> "master_consolidate"
      [] node = "master_consolidate" -> "done"

\* the edges of the compiled graph (graph.py); the run ends after
\* master_consolidate, which has no outgoing edge
NextNode(node) ==
    CASE node = "sales" -> "master_start"
      [] node = "master_start" -> "technical"
      [] node = "technical" -> "pricing"
      [] node = "pricing" -> "master_consolidate"
      [] node = "master_consolidate" -> "done"

-----------------------------------------------------------------------------
(* master_agent_start (agents/master_agent.py).  An RFP is a dict with the  *)
(* keys projectName, submissionDeadline, scope_of_supply,                   *)
(* technical_specifications and testing_requirements; the other keys the    *)
(* code copies are absent and read as their defaults.                       *)

_prepare_technical_summary(rfp) ==
    [projectName |-> Get(rfp, "projectName", ""),
     issued_by |-> Get(rfp, "issued_by", ""),
     submissionDeadline |-> Get(rfp, "submissionDeadline", NoDeadline),
     scope_of_supply |-> Get(rfp, "scope_of_supply", ""),
     technical_specifications |-> Get(rfp, "technical_specifications", ""),
     testing_requirements |-> Get(rfp, "testing_requirements", ""),
     delivery_timeline |-> Get(rfp, "delivery_timeline", ""),
     project_overview |-> Get(rfp, "project_overview", ""),
     _agent_context |-> "technical"]

_prepare_pricing_summary(rfp) ==
    [projectName |-> Get(rfp, "projectName", ""),
     issued_by |-> Get(rfp, "issued_by", ""),
     submissionDeadline |-> Get(rfp, "submissionDeadline", NoDeadline),
     testing_requirements |-> Get(rfp, "testing_requirements", ""),
     pricing_details |-> Get(rfp, "pricing_details", ""),
     evaluation_criteria |-> Get(rfp, "evaluation_criteria", ""),
     scope_of_supply |-> Get(rfp, "scope_of_supply", ""),
     _agent_context |-> "pricing"]

\* the list scored: one (rfp, sc) pair per RFP, in the order of rfps
Scored(rfps, product_db) ==
    List([i \in 1..Len(rfps) |->
            [rfp |-> rfps[i], sc |-> score_single_rfp(rfps[i], product_db)]],
         Len(rfps))

\* Fault variant: the scored list left in the order of rfps.
ScoredUnsorted(scored) == scored

\* scored after scored.sort(key=final_score, reverse=True)
ScoredSorted(scored) ==
    SortDescBy(scored, List([i \in 1..Len(scored) |-> scored[i].sc.final_score],
                            Len(scored)))

\* the locals selected and rfp_score (and scored, when there are several
\* RFPs), where scored holds the score of each RFP
MasterStartLocals(rfps, scored) ==
    IF Len(rfps) = 1
    THEN [selected |-> rfps[1], rfp_score |-> scored[1].sc]
    ELSE LET sorted == ScoredSorted(scored)
         IN [selected |-> sorted[1].rfp, rfp_score |-> sorted[1].sc,
             scored |-> sorted]

\* Fault variant: the selected RFP is tagged with its score in place, which
\* changes the record held by state["rfps"].
RfpsTagged(rfps, selected, rfp_score) ==
    List([i \in 1..Len(rfps) |->
            IF rfps[i] = selected
            THEN Update(rfps[i], [rfp_score |-> rfp_score])
            ELSE rfps[i]], Len(rfps))

\* the list state["rfps"] when master_agent_start returns: selected is one
\* of its records, and the function only reads it
RfpsAfterStart(rfps, selected, rfp_score) == rfps

MasterAgentStart ==
    /\ pc = "master_start"
    /\ LET rfps == Get(state, "rfps", <<>>)
       IN IF rfps = <<>>
          THEN /\ state' = Update(state, [selected_rfp |-> None,
                                          rfp_score |-> EmptyDict,
                                          technical_summary |-> EmptyDict,
                                          pricing_summary |-> EmptyDict])
               /\ frame' = EmptyDict
               /\ result' = None
               /\ pc' = NextNode("master_start")
          ELSE \E scored \in {Scored(rfps, state.product_db)} :
               IF \E i \in 1..Len(scored) : scored[i].sc = OverflowError
               THEN /\ state' = state
                    /\ frame' = EmptyDict
                    /\ result' = OverflowError
                    /\ pc' = "raised"
               ELSE /\ frame' = MasterStartLocals(rfps, scored)
                    /\ state' = Update(state,
                          [rfps |-> RfpsAfterStart(rfps, frame'.selected,
                                                   frame'.rfp_score),
                           selected_rfp |-> frame'.selected,
                           rfp_score |-> frame'.rfp_score,
                           technical_summary |->
                               _prepare_technical_summary(frame'.selected),
                           pricing_summary |->
                               _prepare_pricing_summary(frame'.selected)])
                    /\ result' = None
                    /\ pc' = NextNode("master_start")
    /\ UNCHANGED args

Rfp(name, scope, techspec, deadline) ==
    [projectName |-> name, submissionDeadline |-> deadline,
     scope_of_supply |-> scope, technical_specifications |-> techspec,
     testing_requirements |-> "routine test and type test as per IS 7098"]

\* the texts of the tenders: scope of supply and technical specifications
RfpTexts ==
    {<<"HT", "11 kV XLPE copper cable", "IS 7098">>,
     <<"LT", "LT PVC aluminium cable 1.1 kV", "">>,
     <<"Goods", "supply of goods", "">>}

RfpDeadlines == {NoDeadline, DateStr(Today + 5), DateStr(Today + 200)}

RfpPool == {Rfp(t[1], t[2], t[3], d) : t \in RfpTexts, d \in RfpDeadlines}

\* a row of the sheet that differs from the first row of ProductDB in the
\* fields the scorer reads
SheetRow(product_id, voltage, material, insulation, lead_time, warranty) ==
    Update(ProductDB[1],
           [Product_ID |-> product_id, Voltage_Rating |-> voltage,
            Conductor_Material |-> material, Insulation_Type |-> insulation,
            Category |-> "LT Cable", BIS_Certified |-> "No",
            Min_Order_Qty_Meters |-> 1000, Lead_Time_Days |-> lead_time,
            Warranty_Years |-> warranty])

\* a catalog for which two tenders get final scores 58.77144 and 58.77564,
\* of which 15.56148 is the price term
CloseCatalog ==
    <<SheetRow("R1", "11 kV", "Copper", "PVC", 6, 5),
      SheetRow("R2", "33 kV", "Copper", "XLPE", 75, 4),
      SheetRow("R3", "33 kV", "Aluminium", "PVC", 70, 2)>>

CloseRfps ==
    {Rfp("XLPE", "66 kV XLPE copper cable", "", NoDeadline),
     Rfp("PVC", "66 kV PVC copper cable", "", NoDeadline)}

InitMaster ==
    /\ pc = "master_start"
    /\ \/ \E rfps \in SeqsUpTo(RfpPool, MaxRfps) :
              state = [rfps |-> rfps, product_db |-> ProductDB]
       \/ \E rfps \in SeqsUpTo(CloseRfps, MaxRfps) :
              state = [rfps |-> rfps, product_db |-> CloseCatalog]
    /\ args = EmptyDict
    /\ frame = EmptyDict
    /\ result = None

NextMaster == MasterAgentStart

SpecMaster == InitMaster /\ [][NextMaster]_vars

\* master_agent_start has run on a non-empty list and returned
MasterSelected == pc = "technical" /\ Get(state, "rfps", <<>>) # <<>>

\* what score_single_rfp returns for each RFP of the list, in list order
ScoresOfRfps ==
    List([i \in 1..Len(state.rfps) |->
            score_single_rfp(state.rfps[i], state.product_db)], Len(state.rfps))

\* C1: given a non-empty list of RFPs, master_agent_start sets selected_rfp to
\* an RFP of the list whose final_score is greater than or equal to that of
\* every RFP of the list, and rfp_score to the score result of that RFP.
C1_SelectsHighestScore ==
    MasterSelected =>
        \E sc \in {ScoresOfRfps} : \E i \in 1..Len(state.rfps) :
            /\ state.selected_rfp = state.rfps[i]
            /\ state.rfp_score = sc[i]
            /\ \A j \in 1..Len(state.rfps) : sc[j].final_score <= sc[i].final_score

\* a list whose last RFP scores strictly higher than its first, and is selected
C1_Witness ==
    /\ MasterSelected
    /\ Len(state.rfps) >= 2
    /\ \E sc \in {ScoresOfRfps} : sc[1].final_score < sc[Len(sc)].final_score
    /\ state.selected_rfp = state.rfps[Len(state.rfps)]
    /\ state.selected_rfp # state.rfps[1]

\* whether a delivery score takes the deadline penalty: there are matches and
\* their average lead time exceeds 70% of the days remaining
Penalised(product_db, matches, rfp_deadline) ==
    /\ matches # <<>>
    /\ DeadlinePenalty(LeadTimeTotals(product_db, matches).lt,
                       LeadTimeTotals(product_db, matches).w, rfp_deadline)

\* whether the delivery score of the i-th RFP of the list takes the penalty
PenaltyApplies(i) ==
    Penalised(state.product_db, _quick_match_rfp(state.rfps[i], state.product_db),
              Get(state.rfps[i], "submissionDeadline", NoDeadline))

\* two RFPs of the list with the same text, hence the same match list and
\* estimated price, of which only the i-th takes the deadline penalty
OnlyFirstPenalised(i, j) ==
    /\ CombinedText(state.rfps[i]) = CombinedText(state.rfps[j])
    /\ PenaltyApplies(i)
    /\ ~PenaltyApplies(j)

\* C8: of two RFPs with identical match lists and estimated price of which
\* exactly one takes the deadline penalty, that one has the strictly lower
\* delivery score and the strictly lower final score and is not selected; in a
\* list of just these two the other one is selected, in either order.
C8_DeadlineSensitivity ==
    MasterSelected =>
        \A sc \in {ScoresOfRfps} : \A i, j \in 1..Len(state.rfps) :
            OnlyFirstPenalised(i, j) =>
                /\ sc[i].component_scores.delivery_capability
                     < sc[j].component_scores.delivery_capability
                /\ sc[i].final_score < sc[j].final_score
                /\ state.selected_rfp # state.rfps[i]
                /\ Len(state.rfps) = 2 => state.selected_rfp = state.rfps[j]

\* the penalised RFP comes first in a list of two and the second is selected
C8_Witness ==
    /\ MasterSelected
    /\ Len(state.rfps) = 2
    /\ OnlyFirstPenalised(1, 2)
    /\ state.selected_rfp = state.rfps[2]

\* the estimated price and the locals of calculate_final_score for the
\* matches found for an RFP, with the catalog cost of the matches
CostAndLocals(product_db, matches, cost, rfp_deadline) ==
    [cost |-> cost,
     margin |-> IF cost > 0 THEN Margin(MulDiv(cost, 125, 100), cost) ELSE 0,
     l |-> ScoreLocals(product_db, matches, MulDiv(cost, 125, 100), rfp_deadline)]

\* CostAndLocals of each RFP of the list, in list order
LocalsOfRfps ==
    List([i \in 1..Len(state.rfps) |->
            CostAndLocals(state.product_db,
                          _quick_match_rfp(state.rfps[i], state.product_db),
                          ActualCost(state.product_db,
                                     _quick_match_rfp(state.rfps[i], state.product_db)),
                          Get(state.rfps[i], "submissionDeadline", NoDeadline))],
         Len(state.rfps))

\* final without the term price * WEIGHTS['price_competitiveness']
FinalWithoutPrice(l) == l.final - l.price * WEIGHTS.price_competitiveness

\* the index scored.sort(key=..., reverse=True) puts first: the first index
\* with the greatest key
RankedHighest(keys) ==
    CHOOSE i \in 1..Len(keys) :
        /\ \A j \in 1..Len(keys) : keys[j] <= keys[i]
        /\ \A j \in 1..(i - 1) : keys[j] < keys[i]

\* the keys of the RFPs when the sort key is the final score computed without
\* the price term, rounded like final_score
KeysWithoutPrice(ls) ==
    List([i \in 1..Len(ls) |-> Round2Final(FinalWithoutPrice(ls[i].l))], Len(ls))

\* for every RFP of the list whose matches have a positive catalog cost, the
\* score master_agent_start obtained has margin 0.20 and the price component
\* 100 / (1 + exp(10 * (0.05 - 0.10))), reported as 62.25
PriceComponentConstant(ls, sc) ==
    \A i \in 1..Len(ls) :
        ls[i].cost > 0 =>
            /\ ls[i].margin = 200000
            /\ sc[i].component_scores.price_competitiveness = 6225
            /\ (state.selected_rfp = state.rfps[i]) =>
                  state.rfp_score.component_scores.price_competitiveness = 6225

\* C29 as stated: every opportunity with a matched product of positive
\* catalog cost is scored with margin exactly 20% and the same price
\* component, and the opportunity master_agent_start ranks highest is the one
\* it would rank highest if the price term were left out of the final score.
C29_PriceNeverChangesSelection ==
    MasterSelected =>
        \E ls \in {LocalsOfRfps} : \E sc \in {ScoresOfRfps} :
            /\ PriceComponentConstant(ls, sc)
            /\ \E keys \in {KeysWithoutPrice(ls)} :
                  state.selected_rfp = state.rfps[RankedHighest(keys)]

\* C29, amended: every opportunity with a matched product of positive catalog
\* cost is scored with margin exactly 20% and the same price component, so the
\* price term adds the same amount to each unrounded final score; the sort key
\* is the final score rounded to 2 decimals, so the term can make or break a
\* tie of two keys, and what holds of the opportunity ranked highest is that
\* no opportunity's final score without the price term exceeds its own by
\* more than 0.01.
C29_PriceShiftsAllAlike ==
    MasterSelected =>
        \E ls \in {LocalsOfRfps} : \E sc \in {ScoresOfRfps} :
            /\ PriceComponentConstant(ls, sc)
            /\ \A i, j \in 1..Len(ls) :
                  (ls[i].cost > 0 /\ ls[j].cost > 0) =>
                     ls[i].l.final - ls[j].l.final
                        = FinalWithoutPrice(ls[i].l) - FinalWithoutPrice(ls[j].l)
            /\ \A i, j \in 1..Len(ls) :
                  state.selected_rfp = state.rfps[i] =>
                     FinalWithoutPrice(ls[j].l) - FinalWithoutPrice(ls[i].l)
                        <= FinalScale \div 100

\* two opportunities with matched products of positive cost whose keys
\* without the price term tie at 43.21, so that the first would be ranked
\* highest, while with the price term the keys are 58.77 and 58.78 and the
\* second is selected
C29_Witness ==
    /\ MasterSelected
    /\ Len(state.rfps) = 2
    /\ state.selected_rfp = state.rfps[2]
    /\ state.selected_rfp # state.rfps[1]
    /\ \E ls \in {LocalsOfRfps} : \E keys \in {KeysWithoutPrice(ls)} :
          /\ ls[1].cost > 0 /\ ls[2].cost > 0
          /\ keys[1] = keys[2]
          /\ RankedHighest(keys) = 1

-----------------------------------------------------------------------------
(* extract_required_tests and get_test_details (agents/pricing_agent.py).   *)
(* A regular expression of TEST_KEYWORD_MAP is a list of parts separated by *)
(* \s*, each part a set of alternative literals; bounded marks \b...\b.     *)

Pattern(words, bounded, codes) ==
    [words |-> words, bounded |-> bounded, codes |-> codes]

HV_CODES == <<"HVWT-1.1KV", "HVWT-3.5KV", "HVWT-11KV">>

TEST_KEYWORD_MAP ==
    <<Pattern(<<{"high"}, {"voltage"}, {"withstand"}>>, FALSE, HV_CODES),
      Pattern(<<{"hv"}, {"withstand"}>>, FALSE, HV_CODES),
      Pattern(<<{"voltage"}, {"withstand"}>>, FALSE, HV_CODES),
      Pattern(<<{"insulation"}, {"resistance"}>>, FALSE, <<"IRT-10M">>),
      Pattern(<<{"irt"}>>, TRUE, <<"IRT-10M">>),
      Pattern(<<{"tensile"}, {"strength"}>>, FALSE, <<"TST-360", "TST-350">>),
      Pattern(<<{"mechanical"}, {"test", "testing", "strength"}>>, FALSE,
              <<"TST-360", "MI-01">>),
      Pattern(<<{"mechanical"}, {"installation"}>>, FALSE, <<"MII-01">>),
      Pattern(<<{"mechanical"}, {"inspection"}>>, FALSE, <<"MI-01">>),
      Pattern(<<{"documentation"}>>, FALSE, <<"DOC-01">>),
      Pattern(<<{"certificate", "certification"}>>, FALSE, <<"DOC-01">>),
      Pattern(<<{"routine"}, {"test", "testing", "insulation"}>>, FALSE,
              <<"RT-01", "ET-01">>),
      Pattern(<<{"acceptance"}, {"test", "testing"}>>, FALSE, <<"AT-01", "AT-02">>),
      Pattern(<<{"type"}, {"test", "testing"}>>, FALSE, <<"TT-01">>),
      Pattern(<<{"electrical"}, {"test", "testing"}>>, FALSE, <<"ET-01", "ET-02">>)>>

\* whether the literal w stands in the character list t at position i
LitAt(t, i, w) ==
    /\ i + Len(w) - 1 <= Len(t)
    /\ SubSeq(t, i, i + Len(w) - 1) = Chars(w)

\* the regular expression assertion \b between positions i - 1 and i of t
WordBoundary(t, i) ==
    (i > 1 /\ i - 1 <= Len(t) /\ IsWord(t[i - 1]))
        # (i <= Len(t) /\ IsWord(t[i]))

RECURSIVE MatchesFrom(_, _, _, _, _)
\* whether parts k.. of the pattern match the text t from position i on
MatchesFrom(t, i, words, k, bounded) ==
    \E w \in words[k] :
        /\ LitAt(t, i, w)
        /\ IF k = Len(words)
           THEN bounded => WordBoundary(t, i + Len(w))
           ELSE MatchesFrom(t, SpacesEnd(t, i + Len(w)), words, k + 1, bounded)

\* re.search(pattern, text)
Search(pattern, t) ==
    \E i \in 1..Len(t) :
        /\ pattern.bounded => WordBoundary(t, i)
        /\ MatchesFrom(t, i, pattern.words, 1, pattern.bounded)

\* the set found_codes after the loop over TEST_KEYWORD_MAP
FoundCodes(t) ==
    UNION {{TEST_KEYWORD_MAP[p].codes[c] : c \in 1..Len(TEST_KEYWORD_MAP[p].codes)} :
            p \in {q \in 1..Len(TEST_KEYWORD_MAP) : Search(TEST_KEYWORD_MAP[q], t)}}

\* found_codes after the filter on the product's voltage; v is the voltage
\* rating in lower case without spaces, empty when there is none
HVFiltered(found_codes, v) ==
    IF v = <<>> \/ found_codes \cap {"HVWT-1.1KV", "HVWT-3.5KV", "HVWT-11KV"} = {}
    THEN found_codes
    ELSE IF Contains("11kv", v) THEN found_codes \ {"HVWT-1.1KV", "HVWT-3.5KV"}
    ELSE IF Contains("1.1kv", v) \/ Contains("1.1", v)
    THEN found_codes \ {"HVWT-11KV", "HVWT-3.5KV"}
    ELSE IF Contains("0.6kv", v) \/ Contains("415v", v) \/ Contains("0.4kv", v)
    THEN found_codes \ {"HVWT-11KV"}
    ELSE found_codes

\* Fault variant: documentation is never added.
WithDocumentationNever(found_codes) == found_codes

\* found_codes after "always include documentation if not already"
WithDocumentation(found_codes) ==
    IF \E c \in found_codes : Len(c) >= 3 /\ SubSeq(c, 1, 3) = "DOC"
    THEN found_codes
    ELSE found_codes \cup {"DOC-01"}

\* Fault variant: the basic tests are never added.
WithBasicTestsNever(found_codes) == found_codes

\* found_codes after "if nothing matched but text is non-empty, add basic tests"
WithBasicTests(found_codes) ==
    IF Cardinality(found_codes) = 1
    THEN found_codes \cup {"RT-01", "IRT-10M"}
    ELSE found_codes

\* the characters from "-" to "Z" in the order of their code points
CodePoints == "-./0123456789:;<=>?@ABCDEFGHIJKLMNOPQRSTUVWXYZ"

\* Python's ord(c), for the characters test codes are made of
Ord(c) == 44 + CHOOSE i \in 1..Len(CodePoints) : SubSeq(CodePoints, i, i) = c

\* Python's a < b on strings
StrLess(a, b) ==
    \E i \in 1..Len(b) :
        /\ i - 1 <= Len(a)
        /\ SubSeq(a, 1, i - 1) = SubSeq(b, 1, i - 1)
        /\ \/ i > Len(a)
           \/ Ord(SubSeq(a, i, i)) < Ord(SubSeq(b, i, i))

\* sorted(list(S)), for a set S of strings
Sorted(S) ==
    List([p \in 1..Cardinality(S) |->
            CHOOSE x \in S : Cardinality({y \in S : StrLess(y, x)}) = p - 1],
         Cardinality(S))

\* not text or not text.strip()
Blank(text) == \A i \in 1..Len(text) : IsSpace(SubSeq(text, i, i))

extract_required_tests(testing_requirements_text, voltage_rating) ==
    IF Blank(testing_requirements_text)
    THEN <<"RT-01", "IRT-10M", "DOC-01">>
    ELSE Sorted(WithBasicTests(WithDocumentation(
            HVFiltered(FoundCodes(Lower(testing_requirements_text)),
                       DropSpaces(Lower(voltage_rating))))))

-----------------------------------------------------------------------------
(* extract_required_tests on its own: args holds the call's arguments,      *)
(* frame the set found_codes after the keyword loop, result the list        *)
(* returned.                                                                *)

\* phrases of testing-requirements sections; "dirt" holds irt inside a word
Phrases ==
    {"as per IS 7098", "High Voltage Withstand test", "HV  withstand",
     "insulation resistance", "dirt", "IRT", "tensile strength",
     "mechanical testing", "Documentation", "test certificate",
     "routine test", "type testing"}

RECURSIVE JoinedTo(_, _)
\* " ".join(s[1..n])
JoinedTo(s, n) ==
    IF n = 0 THEN ""
    ELSE IF n = 1 THEN s[1]
    ELSE JoinedTo(s, n - 1) \o " " \o s[n]

\* the empty text, a text of white space and the texts of up to MaxPhrases
\* phrases
Texts ==
    {JoinedTo(s, Len(s)) : s \in SeqsUpTo(Phrases, MaxPhrases)} \cup {"   "}

VoltageRatings == {"", "11 kV", "1.1 kV", "0.6 kV", "415 V", "33 kV"}

InitTests ==
    /\ pc = "extract_required_tests"
    /\ args \in [testing_requirements_text : Texts, voltage_rating : VoltageRatings]
    /\ state = EmptyDict
    /\ frame = EmptyDict
    /\ result = None

ExtractRequiredTests ==
    /\ pc = "extract_required_tests"
    /\ pc' = "tests_returned"
    /\ frame' = IF Blank(args.testing_requirements_text) THEN EmptyDict
                ELSE [found_codes |-> FoundCodes(Lower(args.testing_requirements_text))]
    /\ result' = extract_required_tests(args.testing_requirements_text,
                                        args.voltage_rating)
    /\ UNCHANGED <<state, args>>

NextTests == ExtractRequiredTests

SpecTests == InitTests /\ [][NextTests]_vars

TestsReturned == pc = "tests_returned"

\* the codes of the returned list, as a set
ResultCodes == {result[i] : i \in 1..Len(result)}

\* C17 as stated: for every text, the empty and the white-space text
\* included, and every voltage the returned list has no duplicates and is in
\* ascending order.
C17_SortedNoDuplicates ==
    TestsReturned =>
        \A i \in 1..(Len(result) - 1) : StrLess(result[i], result[i + 1])

\* what the code does instead: for a blank text the list returned is not in
\* ascending order
C17_DefaultsUnsorted ==
    /\ TestsReturned
    /\ Blank(args.testing_requirements_text)
    /\ \E i \in 1..(Len(result) - 1) : StrLess(result[i + 1], result[i])

\* the text is not blank and none of the keyword patterns matches it
Unmatched == "found_codes" \in DOMAIN frame /\ frame.found_codes = {}

\* C18: for a text that is empty, white space only or matches none of the
\* keyword patterns the list returned holds exactly RT-01, IRT-10M and DOC-01;
\* and no returned list consists of the documentation code alone.
C18_DefaultSet ==
    TestsReturned =>
        /\ (Blank(args.testing_requirements_text) \/ Unmatched)
              => (ResultCodes = {"RT-01", "IRT-10M", "DOC-01"} /\ Len(result) = 3)
        /\ result # <<"DOC-01">>

\* a text that only asks for documentation: the basic tests are added
C18_Witness ==
    /\ TestsReturned
    /\ frame = [found_codes |-> {"DOC-01"}]
    /\ ResultCodes = {"RT-01", "IRT-10M", "DOC-01"}

\* the text activated the high-voltage-withstand codes
HVActivated ==
    /\ "found_codes" \in DOMAIN frame
    /\ frame.found_codes \cap {"HVWT-1.1KV", "HVWT-3.5KV", "HVWT-11KV"} # {}

\* C19 as stated: whenever the text activates the high-voltage-withstand
\* codes and the product is of one of the three voltage classes, the list
\* returned holds exactly one HVWT code, the one of that class.
C19_OneHVCodePerClass ==
    (TestsReturned /\ HVActivated
        /\ args.voltage_rating \in {"11 kV", "1.1 kV", "0.6 kV", "415 V"}) =>
        /\ Cardinality(ResultCodes \cap {"HVWT-1.1KV", "HVWT-3.5KV", "HVWT-11KV"}) = 1
        /\ args.voltage_rating = "11 kV" => "HVWT-11KV" \in ResultCodes
        /\ args.voltage_rating = "1.1 kV" => "HVWT-1.1KV" \in ResultCodes

\* what the code does instead: for a product of the class up to 0.6 kV two
\* HVWT codes are returned
C19_TwoHVCodes ==
    /\ TestsReturned
    /\ HVActivated
    /\ args.voltage_rating = "0.6 kV"
    /\ {"HVWT-1.1KV", "HVWT-3.5KV"} \subseteq ResultCodes

\* C20: for every text and every voltage the list returned holds DOC-01.
C20_DocumentationIncluded == TestsReturned => "DOC-01" \in ResultCodes

\* a text that matches a pattern other than the documentation patterns
C20_Witness ==
    /\ TestsReturned
    /\ "found_codes" \in DOMAIN frame
    /\ frame.found_codes # {}
    /\ "DOC-01" \notin frame.found_codes
    /\ "DOC-01" \in ResultCodes

-----------------------------------------------------------------------------
(* extract_required_tests called twice on the same arguments, the keyword   *)
(* loop taking the items of TEST_KEYWORD_MAP in the order frame.order       *)

\* Fault variant: the codes of a matching pattern replace those found so far.
AddCodesReplacing(found_codes, pattern, t) ==
    IF Search(pattern, t)
    THEN {pattern.codes[c] : c \in 1..Len(pattern.codes)}
    ELSE found_codes

\* one pass of the keyword loop: found_codes.add(code) for every code of a
\* pattern that re.search finds in the text t
AddCodes(found_codes, pattern, t) ==
    IF Search(pattern, t)
    THEN found_codes \cup {pattern.codes[c] : c \in 1..Len(pattern.codes)}
    ELSE found_codes

RECURSIVE FoundAfter(_, _, _)
\* found_codes after the first n passes of the loop, taken in the order order
FoundAfter(t, order, n) ==
    IF n = 0 THEN {}
    ELSE AddCodes(FoundAfter(t, order, n - 1), TEST_KEYWORD_MAP[order[n]], t)

\* extract_required_tests with the keyword loop run in the order order
ExtractInOrder(testing_requirements_text, voltage_rating, order) ==
    IF Blank(testing_requirements_text)
    THEN <<"RT-01", "IRT-10M", "DOC-01">>
    ELSE Sorted(WithBasicTests(WithDocumentation(
            HVFiltered(FoundAfter(Lower(testing_requirements_text), order,
                                  Len(order)),
                       DropSpaces(Lower(voltage_rating))))))

\* orders of the items of TEST_KEYWORD_MAP: as written, reversed, and
\* starting from the documentation patterns
Orders ==
    LET n == Len(TEST_KEYWORD_MAP)
    IN {List([i \in 1..n |-> i], n),
        List([i \in 1..n |-> n + 1 - i], n),
        List([i \in 1..n |-> ((i + 8) % n) + 1], n)}

\* phrases that activate the same codes through different patterns, and
\* different codes
ResolvePhrases == {"HV withstand", "voltage withstand", "IRT", "routine test"}

ResolveTexts ==
    {JoinedTo(s, Len(s)) : s \in SeqsUpTo(ResolvePhrases, MaxPhrases)} \cup {"   "}

InitResolve ==
    /\ pc = "resolve"
    /\ args \in [testing_requirements_text : ResolveTexts,
                 voltage_rating : {"", "11 kV", "0.6 kV"}]
    /\ state = EmptyDict
    /\ frame = EmptyDict
    /\ result = None

\* the first call
Resolve ==
    /\ pc = "resolve"
    /\ pc' = "resolved"
    /\ \E order \in Orders :
          /\ frame' = [order |-> order]
          /\ result' = ExtractInOrder(args.testing_requirements_text,
                                      args.voltage_rating, order)
    /\ UNCHANGED <<state, args>>

\* the second call, on the same arguments; frame.first keeps what the first
\* call returned
ResolveAgain ==
    /\ pc = "resolved"
    /\ pc' = "resolved_again"
    /\ \E order \in Orders :
          /\ frame' = [order |-> order, first_order |-> frame.order,
                       first |-> result]
          /\ result' = ExtractInOrder(args.testing_requirements_text,
                                      args.voltage_rating, order)
    /\ UNCHANGED <<state, args>>

NextResolve == Resolve \/ ResolveAgain

SpecResolve == InitResolve /\ [][NextResolve]_vars

ResolvedAgain == pc = "resolved_again"

\* C21: resolving the same text with the same voltage twice returns the same
\* list of codes, whatever the order in which the keyword patterns are
\* evaluated in either call; the list is the one of the loop in the order of
\* the table.
C21_IdempotentOrderIndependent ==
    /\ ResolvedAgain => result = frame.first
    /\ pc \in {"resolved", "resolved_again"} =>
          result = extract_required_tests(args.testing_requirements_text,
                                          args.voltage_rating)

\* two calls in different orders on a text in which two patterns with
\* different codes match
C21_Witness ==
    /\ ResolvedAgain
    /\ frame.order # frame.first_order
    /\ \E p, q \in 1..Len(TEST_KEYWORD_MAP) :
          /\ TEST_KEYWORD_MAP[p].codes # TEST_KEYWORD_MAP[q].codes
          /\ Search(TEST_KEYWORD_MAP[p], Lower(args.testing_requirements_text))
          /\ Search(TEST_KEYWORD_MAP[q], Lower(args.testing_requirements_text))

-----------------------------------------------------------------------------
(* technical_agent (agents/technical_agent.py)                              *)

\* str.strip(), for a list of characters
Strip(t) ==
    LET kept == {i \in 1..Len(t) : ~IsSpace(t[i])}
    IN IF kept = {} THEN <<>>
       ELSE SubSeq(t, CHOOSE i \in kept : \A j \in kept : i <= j,
                      CHOOSE i \in kept : \A j \in kept : j <= i)

\* normalize(val): str(val).lower().strip()
normalize(val) == Strip(Lower(val))

\* tech_text of an RFP; flatten_json of a string is the string
TechText(rfp) ==
    Strip(Lower(rfp.technical_specifications) \o <<" ">> \o Lower(rfp.scope_of_supply))

\* the six values of specs, for one catalog row
SpecValues(row) ==
    <<row.Voltage_Rating, row.Conductor_Material, row.Insulation_Type,
      row.Number_of_Cores, row.Armoring, row.Standards_Compliance>>

\* matched: the number of values of specs found in tech_text
Matched(tech_text, row) ==
    Cardinality({k \in 1..6 : ContainsChars(normalize(SpecValues(row)[k]), tech_text)})

\* the matches appended for the catalog rows, given matched of every row
TechMatchesOf(matched, db) ==
    LET listed == SelectSeq([i \in 1..Len(db) |-> i],
                            LAMBDA i : Percent(matched[i], 6) > 0)
    IN List([n \in 1..Len(listed) |->
                [product_id |-> db[listed[n]].Product_ID,
                 product_name |-> db[listed[n]].Product_Name,
                 spec_match_percent |-> Percent(matched[listed[n]], 6),
                 category |-> db[listed[n]].Category]],
            Len(listed))

\* Fault variant: the first five matches in catalog order.
TopFiveUnsorted(matches) == Take(matches, 5)

\* matches.sort(key=spec_match_percent, reverse=True); matches[:5]
TopFive(matches) ==
    Take(SortDescBy(matches, List([n \in 1..Len(matches) |->
                                     matches[n].spec_match_percent],
                                 Len(matches))), 5)

\* the list appended to results for one RFP
RfpTechMatches(tech_text, db) ==
    TopFive(TechMatchesOf(List([i \in 1..Len(db) |-> Matched(tech_text, db[i])],
                               Len(db)), db))

\* Fault variant: one list of matches is appended even without an RFP.
TechMatchesPadded(rfps, db) == <<<<>>>>

\* results: one list of matches per RFP of state["rfps"]
TechMatches(rfps, db) ==
    List([r \in 1..Len(rfps) |-> RfpTechMatches(TechText(rfps[r]), db)], Len(rfps))

TechnicalAgent ==
    /\ pc = "technical"
    /\ pc' = NextNode("technical")
    /\ state' = Update(state,
                       [tech_matches |-> TechMatches(state.rfps, state.product_db)])
    /\ frame' = EmptyDict
    /\ result' = None
    /\ UNCHANGED args

-----------------------------------------------------------------------------
(* technical_agent on its own, on catalogs of three and of seven products   *)
(* and on lists of RFPs                                                     *)

\* a catalog row of the six matched fields; the other columns are as in P1
CatalogRow(product_id, voltage, material, insulation, cores, armoring, standards) ==
    Update(ProductDB[1],
           [Product_ID |-> product_id, Product_Name |-> "Cable " \o product_id,
            Voltage_Rating |-> voltage, Conductor_Material |-> material,
            Insulation_Type |-> insulation, Number_of_Cores |-> cores,
            Armoring |-> armoring, Standards_Compliance |-> standards])

\* seven products, the best match of an 11 kV XLPE text last in the sheet
LargeCatalog ==
    <<CatalogRow("Q1", "1.1 kV", "Copper", "PVC", "2 core", "Armoured", "IEC 60502"),
      CatalogRow("Q2", "11 kV", "Aluminium", "XLPE", "4 core", "Unarmoured", "BS 5467"),
      CatalogRow("Q3", "33 kV", "Copper", "XLPE", "1 core", "Armoured", "IS 7098"),
      CatalogRow("Q4", "11 kV", "Copper", "PVC", "3 core", "Unarmoured", "IS 7098"),
      CatalogRow("Q5", "1.1 kV", "Aluminium", "PVC", "4 core", "Armoured", "IS 1554"),
      CatalogRow("Q6", "11 kV", "Copper", "XLPE", "3 core", "Unarmoured", "IS 7098"),
      CatalogRow("Q7", "11 kV", "Copper", "XLPE", "3 core", "Armoured", "IS 7098")>>

Catalogs == {ProductDB, LargeCatalog}

\* RFPs whose texts name all six fields of a product, some, and none
TechRfps ==
    {Rfp("Full", "11 kV XLPE copper cable", "3 core armoured, IS 7098", NoDeadline),
     Rfp("HT", "11 kV XLPE copper cable", "IS 7098", NoDeadline),
     Rfp("LT", "LT PVC aluminium cable 1.1 kV", "", NoDeadline),
     Rfp("Unarmoured", "  Unarmoured 4 core cable", "BS 5467  ", NoDeadline),
     Rfp("Copper", "copper", "", NoDeadline),
     Rfp("Goods", "supply of goods", "", NoDeadline)}

InitTechnical ==
    /\ pc = "technical"
    /\ state \in {[product_db |-> db, rfps |-> rfps] :
                    db \in Catalogs, rfps \in SeqsUpTo(TechRfps, MaxRfps)}
    /\ args = EmptyDict
    /\ frame = EmptyDict
    /\ result = None

NextTechnical == TechnicalAgent

SpecTechnical == InitTechnical /\ [][NextTechnical]_vars

\* technical_agent has returned
TechnicalReturned == "tech_matches" \in DOMAIN state

\* the index in the catalog db of the product of a listed match
RowOf(db, match) == CHOOSE i \in 1..Len(db) : db[i].Product_ID = match.product_id

\* the list L of matches is what the claim says for the text tech_text and
\* the catalog db
ListedAsClaimed(L, tech_text, db) ==
    LET count(i) == Matched(tech_text, db[i])
        row(n) == RowOf(db, L[n])
        pct(n) == L[n].spec_match_percent
    IN /\ Len(L) <= 5
       /\ \A n \in 1..Len(L) :
             /\ count(row(n)) >= 1
             /\ Abs(6 * pct(n) - 10000 * count(row(n))) <= 3
             /\ count(row(n)) = 6 => pct(n) = 10000
       /\ \A n, k \in 1..Len(L) : count(row(n)) < count(row(k)) => pct(n) < pct(k)
       /\ \A n \in 1..(Len(L) - 1) :
             \/ pct(n) > pct(n + 1)
             \/ pct(n) = pct(n + 1) /\ row(n) < row(n + 1)
       /\ \A i \in 1..Len(db) :
             (\A n \in 1..Len(L) : row(n) # i) =>
                 \/ count(i) = 0
                 \/ Len(L) = 5 /\ \A n \in 1..Len(L) : count(i) <= count(row(n))

\* C22: for every RFP the list of matches holds at most 5 products, each with
\* at least one of its six fields in the text and the percentage
\* matched / 6 x 100 at 2 decimals (6 of 6 giving 100, more fields giving
\* more), in non-increasing order of percentage with equal percentages in
\* catalog order; a product that is not listed matched no field, or the list
\* is full and no listed product matched fewer fields.
C22_TopFiveByPercentage ==
    TechnicalReturned =>
        /\ Len(state.tech_matches) = Len(state.rfps)
        /\ \A r \in 1..Len(state.rfps) :
              ListedAsClaimed(state.tech_matches[r], TechText(state.rfps[r]),
                              state.product_db)

\* a text for which six products match: five are listed, the first with
\* 100 percent, two with equal percentages, and a matching product is omitted
C22_Witness ==
    /\ TechnicalReturned
    /\ \E r \in 1..Len(state.rfps) :
          LET L == state.tech_matches[r]
          IN /\ Len(L) = 5
             /\ L[1].spec_match_percent = 10000
             /\ \E n \in 1..4 : L[n].spec_match_percent = L[n + 1].spec_match_percent
             /\ \E i \in 1..Len(state.product_db) :
                   /\ Matched(TechText(state.rfps[r]), state.product_db[i]) >= 1
                   /\ \A n \in 1..5 : L[n].product_id # state.product_db[i].Product_ID

-----------------------------------------------------------------------------
(* _quick_match_rfp on its own: args holds the RFP and the catalog, frame   *)
(* the counters of every catalog row, result the list returned              *)

\* twelve products that differ in voltage, conductor and insulation
TwelveCatalog ==
    LET ids == <<"R1", "R2", "R3", "R4", "R5", "R6", "R7", "R8", "R9", "R10",
                 "R11", "R12">>
    IN List([i \in 1..12 |->
                CatalogRow(ids[i],
                           IF i % 3 = 0 THEN "33 kV"
                           ELSE IF i % 3 = 1 THEN "1.1 kV" ELSE "11 kV",
                           IF i % 2 = 0 THEN "Copper" ELSE "Aluminium",
                           IF i % 4 < 2 THEN "PVC" ELSE "XLPE",
                           "3 core", "Armoured", "IS 7098")], 12)

\* texts of scope_of_supply and of technical_specifications that name a
\* voltage, a conductor, an insulation, several of them, or none
ScopeTexts ==
    {"11 kV XLPE copper cable", "LT PVC aluminium cable 1.1 kV",
     "supply of goods", "Cu conductor, 415 V", "cross-linked aluminum 33kV", ""}

TechSpecTexts == {"", "IS 7098", "PVC insulated", "copper"}

InitMatcher ==
    /\ pc = "_quick_match_rfp"
    /\ args \in {[rfp |-> Rfp("Tender", scope, techspec, NoDeadline),
                  product_db |-> db] :
                    scope \in ScopeTexts, techspec \in TechSpecTexts,
                    db \in Catalogs \cup {TwelveCatalog}}
    /\ state = EmptyDict
    /\ frame = EmptyDict
    /\ result = None

QuickMatchRfp ==
    /\ pc = "_quick_match_rfp"
    /\ pc' = "quick_matched"
    /\ frame' = [combined_text |-> CombinedText(args.rfp),
                 counted |-> QuickCounts(CombinedText(args.rfp), args.product_db)]
    /\ result' = _quick_match_rfp(args.rfp, args.product_db)
    /\ UNCHANGED <<state, args>>

NextMatcher == QuickMatchRfp

SpecMatcher == InitMatcher /\ [][NextMatcher]_vars

QuickMatched == pc = "quick_matched"

\* the number of dimensions (voltage, conductor family, insulation family)
\* detectable in the text
Detectable(text) ==
    (IF VoltageToken(text) # <<>> THEN 1 ELSE 0)
    + (IF \E k \in {"copper", "cu ", "aluminium", "aluminum", "al "} :
             Contains(k, text) THEN 1 ELSE 0)
    + (IF \E k \in {"xlpe", "cross linked", "pvc"} : Contains(k, text)
       THEN 1 ELSE 0)

\* the list L is what the claim says, where counted holds the counters of the
\* rows of the catalog db and total the number of detectable dimensions
QuickListAsClaimed(L, counted, db, total) ==
    /\ Len(L) <= 10
    /\ \A n \in 1..(Len(L) - 1) :
          L[n].spec_match_percent >= L[n + 1].spec_match_percent
    /\ \A n \in 1..Len(L) :
          /\ total \in 1..3
          /\ counted[RowOf(db, L[n])].total = total
          /\ counted[RowOf(db, L[n])].score \in 1..total
          /\ 2 * Abs(total * L[n].spec_match_percent
                     - 10000 * counted[RowOf(db, L[n])].score) <= total
    /\ total = 0 => L = <<>>

\* C24: _quick_match_rfp returns at most 10 matches in non-increasing order
\* of percentage; each percentage is matched / total x 100 at 2 decimals,
\* total being the number, from 1 to 3, of dimensions detectable in the text;
\* with no detectable dimension the list returned is empty.
C24_TopTenByPercentage ==
    QuickMatched =>
        QuickListAsClaimed(result, frame.counted, args.product_db,
                           Detectable(frame.combined_text))

\* more than ten products match a text with three detectable dimensions: ten
\* are returned, the first with a higher percentage than the last
C24_Witness ==
    /\ QuickMatched
    /\ Detectable(frame.combined_text) = 3
    /\ Len(result) = 10
    /\ Cardinality({i \in 1..Len(args.product_db) : frame.counted[i].score > 0}) > 10
    /\ result[1].spec_match_percent > result[10].spec_match_percent

-----------------------------------------------------------------------------
(* pricing_agent (agents/pricing_agent.py).  Money is in units of 0.001    *)
(* INR, durations are in units of 0.1 hour.                                 *)

\* the "Testing Services" sheet; some of the codes of TEST_KEYWORD_MAP have
\* no row in it
TestServicesDB ==
    <<[Test_Code |-> "RT-01", Test_Name |-> "Routine Insulation Test",
       Price_INR |-> 8000000, Duration_Hours |-> 10],
      [Test_Code |-> "IRT-10M", Test_Name |-> "Insulation Resistance Test",
       Price_INR |-> 12000000, Duration_Hours |-> 10],
      [Test_Code |-> "DOC-01", Test_Name |-> "Documentation and Certification",
       Price_INR |-> 10000000, Duration_Hours |-> 40],
      [Test_Code |-> "HVWT-11KV", Test_Name |-> "HV Withstand Test 11 kV",
       Price_INR |-> 45000500, Duration_Hours |-> 25],
      [Test_Code |-> "HVWT-1.1KV", Test_Name |-> "HV Withstand Test 1.1 kV",
       Price_INR |-> 15000250, Duration_Hours |-> 15],
      [Test_Code |-> "TT-01", Test_Name |-> "Type Test",
       Price_INR |-> 60000000, Duration_Hours |-> 80]>>

\* round(x, 2) of an amount of money
Round2Money(x) == 10 * RoundHalfEven(x, 10)

\* the details of one test code
TestDetail(code, test_services_db) ==
    LET row == SelectSeq(test_services_db, LAMBDA r : r.Test_Code = code)
    IN IF row # <<>>
       THEN [test_code |-> code, test_name |-> row[1].Test_Name,
             price_inr |-> row[1].Price_INR,
             duration_hours |-> row[1].Duration_Hours]
       ELSE [test_code |-> code, test_name |-> "Test " \o code \o " (estimated)",
             price_inr |-> 10000000, duration_hours |-> 20]

get_test_details(test_codes, test_services_db) ==
    List([i \in 1..Len(test_codes) |-> TestDetail(test_codes[i], test_services_db)],
         Len(test_codes))

\* test_details when test_services_db is not loaded
FallbackTestDetails ==
    <<[test_code |-> "RT-01", test_name |-> "Routine Insulation Test",
       price_inr |-> 8000000, duration_hours |-> 10],
      [test_code |-> "IRT-10M", test_name |-> "Insulation Resistance Test",
       price_inr |-> 12000000, duration_hours |-> 10],
      [test_code |-> "DOC-01", test_name |-> "Documentation and Certification",
       price_inr |-> 10000000, duration_hours |-> 40]>>

\* test_details of a line item; st is the state dict
TestDetailsOf(required_test_codes, st) ==
    IF "test_services_db" \in DOMAIN st
    THEN get_test_details(required_test_codes, st.test_services_db)
    ELSE FallbackTestDetails

\* the row appended for a line item without a selected SKU
ZeroRow(line_item_text) ==
    [line_item |-> line_item_text, sku |-> None, unit_price_inr |-> 0,
     moq_meters |-> 0, material_cost_inr |-> 0, applicable_tests |-> <<>>,
     test_cost_inr |-> 0, line_total_inr |-> 0,
     note |-> "No matching product found"]

\* unit_price, moq and voltage_rating of the selected SKU
Material(selected_sku, product_row) ==
    IF product_row # <<>>
    THEN [unit_price |-> product_row[1].Unit_Price_INR_per_meter,
          moq |-> product_row[1].Min_Order_Qty_Meters,
          voltage_rating |-> product_row[1].Voltage_Rating]
    ELSE [unit_price |-> Get(selected_sku, "unit_price", 0),
          moq |-> Get(selected_sku, "moq", 100),
          voltage_rating |-> ""]

\* Fault variant: the line total leaves out the test cost.
LineCostsMaterialOnly(material, test_details) ==
    [material_cost |-> Round2Money(material.unit_price * material.moq),
     test_cost |-> Round2Money(SeqSum([i \in 1..Len(test_details) |->
                                          test_details[i].price_inr])),
     line_total |-> Round2Money(material.unit_price * material.moq)]

\* material_cost, test_cost and line_total of a line item
LineCosts(material, test_details) ==
    [material_cost |-> Round2Money(material.unit_price * material.moq),
     test_cost |-> Round2Money(SeqSum([i \in 1..Len(test_details) |->
                                          test_details[i].price_inr])),
     line_total |->
        Round2Money(Round2Money(material.unit_price * material.moq)
                    + Round2Money(SeqSum([i \in 1..Len(test_details) |->
                                            test_details[i].price_inr])))]

\* the row appended for a line item with a selected SKU
PricedRow(line_item_text, selected_sku, material, test_details, costs) ==
    [line_item |-> line_item_text,
     sku |-> selected_sku.product_id,
     product_name |-> Get(selected_sku, "product_name", ""),
     unit_price_inr |-> material.unit_price,
     moq_meters |-> material.moq,
     material_cost_inr |-> costs.material_cost,
     applicable_tests |-> test_details,
     test_cost_inr |-> costs.test_cost,
     line_total_inr |-> costs.line_total]

\* the row one pass of the loop appends; st is the state dict
PricingRow(item_result, testing_requirements_text, st) ==
    IF Falsy(Get(item_result, "selected_sku", None))
    THEN ZeroRow(Get(item_result, "line_item", ""))
    ELSE LET selected_sku == item_result.selected_sku
             material == Material(selected_sku,
                                  ProductRows(st.product_db, selected_sku.product_id))
             test_details ==
                TestDetailsOf(extract_required_tests(testing_requirements_text,
                                                     material.voltage_rating), st)
         IN PricedRow(Get(item_result, "line_item", ""), selected_sku, material,
                      test_details, LineCosts(material, test_details))

\* line_item_pricing after the loop
LineItemPricing(line_item_matches, testing_requirements_text, st) ==
    List([i \in 1..Len(line_item_matches) |->
            PricingRow(line_item_matches[i], testing_requirements_text, st)],
         Len(line_item_matches))

\* Fault variant: the material total counts the first row only.
RunningTotalFirstOnly(rows, key) == IF rows = <<>> THEN 0 ELSE rows[1][key]

\* total_material_cost and total_test_cost after the loop: the sum of the
\* rows' values; the zero rows add nothing
RunningTotal(rows, key) == SeqSum([i \in 1..Len(rows) |-> rows[i][key]])

\* the dict consolidated_pricing, built from the rows
ConsolidatedPricing(rows) ==
    [line_item_pricing |-> rows,
     total_material_cost |-> Round2Money(RunningTotal(rows, "material_cost_inr")),
     total_test_cost |-> Round2Money(RunningTotal(rows, "test_cost_inr")),
     grand_total |-> Round2Money(RunningTotal(rows, "material_cost_inr")
                                 + RunningTotal(rows, "test_cost_inr"))]

PricingAgent ==
    /\ pc = "pricing"
    /\ pc' = NextNode("pricing")
    /\ IF Get(state, "line_item_matches", <<>>) = <<>>
       THEN /\ state' = Update(state,
                    [consolidated_pricing |->
                        [line_item_pricing |-> <<>>, total_material_cost |-> 0,
                         total_test_cost |-> 0, grand_total |-> 0],
                     prices |-> <<>>])
            /\ frame' = EmptyDict
       ELSE /\ frame' = [line_item_pricing |->
                            LineItemPricing(
                                state.line_item_matches,
                                Get(Get(state, "pricing_summary", EmptyDict),
                                    "testing_requirements", ""),
                                state)]
            /\ state' = Update(state,
                    [consolidated_pricing |->
                        ConsolidatedPricing(frame'.line_item_pricing),
                     prices |-> List([i \in 1..Len(frame'.line_item_pricing) |->
                                        frame'.line_item_pricing[i].line_total_inr],
                                     Len(frame'.line_item_pricing))])
    /\ result' = None
    /\ UNCHANGED args

-----------------------------------------------------------------------------
(* pricing_agent on its own, on the line-item results of a state            *)

Sku(product_id, product_name) ==
    [product_id |-> product_id, product_name |-> product_name]

ItemResult(line_item, selected_sku) ==
    [line_item |-> line_item, selected_sku |-> selected_sku,
     rfp_specs |-> [voltage |-> "11 kV"], top_3 |-> <<selected_sku>>]

\* line-item results: catalog products, the same text twice with different
\* SKUs, no SKU, SKUs missing from the catalog (with and without the stored
\* price) and a result without the optional keys
ItemResults ==
    {ItemResult("Item A", Sku("P1", "HT XLPE Copper Cable")),
     ItemResult("Item B", Sku("P3", "LT PVC Copper Cable")),
     ItemResult("Item A", Sku("P3", "LT PVC Copper Cable")),
     ItemResult("Item C", None),
     ItemResult("Item D", [product_id |-> "PX", unit_price |-> 99995, moq |-> 10]),
     ItemResult("Item E", [product_id |-> "PY"]),
     [selected_sku |-> Sku("P2", "LT PVC Aluminium Cable")]}

\* the testing requirements of the pricing summary
TestingRequirements ==
    {"", "routine test and type test as per IS 7098", "High Voltage Withstand test"}

InitPricing ==
    /\ pc = "pricing"
    /\ \E items \in SeqsUpTo(ItemResults, MaxLineItems) :
       \E text \in TestingRequirements :
       \E tests \in {[test_services_db |-> TestServicesDB], EmptyDict} :
            state = Update(Update([product_db |-> ProductDB,
                                   line_item_matches |-> items], tests),
                           IF text = "" THEN EmptyDict
                           ELSE [pricing_summary |-> [testing_requirements |-> text]])
    /\ args = EmptyDict
    /\ frame = EmptyDict
    /\ result = None

NextPricing == PricingAgent

SpecPricing == InitPricing /\ [][NextPricing]_vars

\* pricing_agent has run
Priced == pc = "master_consolidate" /\ "consolidated_pricing" \in DOMAIN state

\* the rows of consolidated_pricing
PricingRows == state.consolidated_pricing.line_item_pricing

\* C9: every pricing row has material_cost_inr = unit_price_inr x moq_meters,
\* test_cost_inr = the sum of the price_inr of its applicable_tests and
\* line_total_inr = material_cost_inr + test_cost_inr, each at 2-decimal
\* precision; the zero row of a line item without a selected SKU included.
C9_RowArithmetic ==
    Priced =>
        \A r \in {PricingRows[i] : i \in 1..Len(PricingRows)} :
            /\ r.material_cost_inr = Round2Money(r.unit_price_inr * r.moq_meters)
            /\ r.test_cost_inr =
                 Round2Money(SeqSum([i \in 1..Len(r.applicable_tests) |->
                                        r.applicable_tests[i].price_inr]))
            /\ r.line_total_inr = r.material_cost_inr + r.test_cost_inr

\* unit price 120.0 and MOQ 500 give the material cost 60000.0, next to a
\* zero row
C9_Witness ==
    /\ Priced
    /\ \E i, j \in 1..Len(PricingRows) :
        /\ PricingRows[i].unit_price_inr = 120000
        /\ PricingRows[i].moq_meters = 500
        /\ PricingRows[i].material_cost_inr = 60000000
        /\ PricingRows[i].test_cost_inr > 0
        /\ "note" \in DOMAIN PricingRows[j]

\* the sum of the values of key over the rows
RowSum(rows, key) == SeqSum([i \in 1..Len(rows) |-> rows[i][key]])

\* C10: in consolidated_pricing total_material_cost is the sum of
\* material_cost_inr over the rows, total_test_cost the sum of test_cost_inr,
\* and grand_total is their sum and the sum of line_total_inr over the rows;
\* with no line items all three totals are 0.
C10_Totals ==
    Priced =>
        /\ state.consolidated_pricing.total_material_cost
             = RowSum(PricingRows, "material_cost_inr")
        /\ state.consolidated_pricing.total_test_cost
             = RowSum(PricingRows, "test_cost_inr")
        /\ state.consolidated_pricing.grand_total
             = state.consolidated_pricing.total_material_cost
                 + state.consolidated_pricing.total_test_cost
        /\ state.consolidated_pricing.grand_total
             = RowSum(PricingRows, "line_total_inr")
        /\ state.line_item_matches = <<>> =>
             /\ state.consolidated_pricing.total_material_cost = 0
             /\ state.consolidated_pricing.total_test_cost = 0
             /\ state.consolidated_pricing.grand_total = 0

\* two priced rows with different material costs
C10_Witness ==
    /\ Priced
    /\ Len(PricingRows) = 2
    /\ PricingRows[1].material_cost_inr > 0
    /\ PricingRows[2].material_cost_inr > PricingRows[1].material_cost_inr
    /\ state.consolidated_pricing.grand_total
         > state.consolidated_pricing.total_material_cost

-----------------------------------------------------------------------------
(* master_agent_consolidate (agents/master_agent.py)                        *)

\* Fault variant: the first pricing row of the text is taken.
PricingForFirst(pricing_rows, item_name) ==
    LET rows == SelectSeq(pricing_rows, LAMBDA row : row.line_item = item_name)
    IN IF rows = <<>> THEN EmptyDict ELSE rows[1]

\* pricing_by_item.get(item_name, {}): the dict comprehension keeps, for
\* each text, the last row that has it
PricingFor(pricing_rows, item_name) ==
    LET rows == SelectSeq(pricing_rows, LAMBDA row : row.line_item = item_name)
    IN IF rows = <<>> THEN EmptyDict ELSE rows[Len(rows)]

\* the dict appended to final_response["line_items"] for one line item
MergedRow(item, pricing) ==
    [line_item |-> Get(item, "line_item", ""),
     rfp_specs |-> Get(item, "rfp_specs", EmptyDict),
     top_3_recommendations |-> Get(item, "top_3", <<>>),
     selected_sku |-> Get(item, "selected_sku", EmptyDict),
     unit_price_inr |-> Get(pricing, "unit_price_inr", 0),
     moq_meters |-> Get(pricing, "moq_meters", 0),
     material_cost_inr |-> Get(pricing, "material_cost_inr", 0),
     applicable_tests |-> Get(pricing, "applicable_tests", <<>>),
     test_cost_inr |-> Get(pricing, "test_cost_inr", 0),
     line_total_inr |-> Get(pricing, "line_total_inr", 0)]

\* final_response["line_items"] after the loop
MergedRows(line_item_matches, pricing_rows) ==
    List([i \in 1..Len(line_item_matches) |->
            MergedRow(line_item_matches[i],
                      PricingFor(pricing_rows,
                                 Get(line_item_matches[i], "line_item", "")))],
         Len(line_item_matches))

\* the dict final_response
FinalResponse(rfp, rfp_score, line_item_matches, consolidated_pricing) ==
    [project_name |-> Get(rfp, "projectName", ""),
     issued_by |-> Get(rfp, "issued_by", ""),
     deadline |-> Get(rfp, "submissionDeadline", NoDeadline),
     bid_viability |->
        [score |-> Get(rfp_score, "final_score", 0),
         grade |-> Get(rfp_score, "grade", "N/A"),
         recommendation |-> Get(rfp_score, "recommendation", ""),
         component_scores |-> Get(rfp_score, "component_scores", EmptyDict),
         weighted_contributions |->
            Get(rfp_score, "weighted_contributions", EmptyDict)],
     line_items |->
        MergedRows(line_item_matches,
                   Get(consolidated_pricing, "line_item_pricing", <<>>)),
     summary |->
        [total_material_cost_inr |->
            Get(consolidated_pricing, "total_material_cost", 0),
         total_test_cost_inr |-> Get(consolidated_pricing, "total_test_cost", 0),
         grand_total_inr |-> Get(consolidated_pricing, "grand_total", 0)]]

\* the path generate_rfp_pdf returns
PdfPath == [path |-> "outputs/rfp_bid_report.pdf"]

\* the report is written, or generate_rfp_pdf raises and pdf_path is None
MasterAgentConsolidate ==
    /\ pc = "master_consolidate"
    /\ pc' = NextNode("master_consolidate")
    /\ IF Falsy(Get(state, "selected_rfp", EmptyDict))
       THEN state' = Update(state, [final_response |-> EmptyDict, pdf_path |-> None])
       ELSE \E pdf_path \in {PdfPath, None} :
                state' = Update(state,
                    [final_response |->
                        FinalResponse(state.selected_rfp,
                                      Get(state, "rfp_score", EmptyDict),
                                      Get(state, "line_item_matches", <<>>),
                                      Get(state, "consolidated_pricing", EmptyDict)),
                     pdf_path |-> pdf_path])
    /\ frame' = EmptyDict
    /\ result' = None
    /\ UNCHANGED args

-----------------------------------------------------------------------------
(* master_agent_consolidate on its own, on line-item results and pricing    *)
(* rows that need not come from the same list                               *)

\* line-item results: one text with two SKUs, no SKU, no text
ConsolidateItems ==
    {ItemResult("Item A", Sku("P1", "HT XLPE Copper Cable")),
     ItemResult("Item A", Sku("P3", "LT PVC Copper Cable")),
     ItemResult("Item C", None),
     [selected_sku |-> Sku("P2", "LT PVC Aluminium Cable")]}

\* the state after pricing_agent: rfp is the selected RFP and rfp_score its
\* score, items the line-item results, consolidated_pricing the pricing
PricedState(rfp, rfp_score, items, consolidated_pricing) ==
    [product_db |-> ProductDB,
     test_services_db |-> TestServicesDB,
     rfps |-> <<rfp>>,
     selected_rfp |-> rfp,
     rfp_score |-> rfp_score,
     pricing_summary |-> _prepare_pricing_summary(rfp),
     line_item_matches |-> items,
     consolidated_pricing |-> consolidated_pricing]

\* what pricing_agent writes for the line-item results priced
PricingOf(rfp, priced) ==
    ConsolidatedPricing(
        LineItemPricing(priced, Get(rfp, "testing_requirements", ""),
                        [product_db |-> ProductDB,
                         test_services_db |-> TestServicesDB]))

InitConsolidate ==
    /\ pc = "master_consolidate"
    /\ \/ \E rfp \in {Rfp("HT", "11 kV XLPE copper cable", "IS 7098",
                             DateStr(Today + 30))} :
          \E rfp_score \in {score_single_rfp(rfp, ProductDB)} :
          \E priced \in SeqsUpTo(ConsolidateItems, MaxLineItems) :
          \E consolidated_pricing \in {PricingOf(rfp, priced)} :
          \E items \in SeqsUpTo(ConsolidateItems, MaxLineItems) :
               state = PricedState(rfp, rfp_score, items, consolidated_pricing)
       \/ state = [product_db |-> ProductDB, rfps |-> <<>>, selected_rfp |-> None,
                   rfp_score |-> EmptyDict]
    /\ args = EmptyDict
    /\ frame = EmptyDict
    /\ result = None

NextConsolidate == MasterAgentConsolidate

SpecConsolidate == InitConsolidate /\ [][NextConsolidate]_vars

\* master_agent_consolidate has built a report
Reported == pc = "done" /\ Get(state, "final_response", EmptyDict) # EmptyDict

\* the merged line items of the report
ReportItems == state.final_response.line_items

\* C11 as stated: in every report each merged line item has
\* material_cost_inr + test_cost_inr = line_total_inr, and the summary totals
\* are the sums over the report's own line items of material_cost_inr,
\* test_cost_inr and line_total_inr.
C11_ReportTotalsAreRowSums ==
    Reported =>
        /\ \A i \in 1..Len(ReportItems) :
              ReportItems[i].material_cost_inr + ReportItems[i].test_cost_inr
                = ReportItems[i].line_total_inr
        /\ RowSum(ReportItems, "material_cost_inr")
             = state.final_response.summary.total_material_cost_inr
        /\ RowSum(ReportItems, "test_cost_inr")
             = state.final_response.summary.total_test_cost_inr
        /\ RowSum(ReportItems, "line_total_inr")
             = state.final_response.summary.grand_total_inr

\* what the code does instead: the pricing rows come from the very list of
\* line items, two of which share their text, and the material costs of the
\* report's line items do not add up to its total
C11_DuplicateTextBreaksTotals ==
    /\ Reported
    /\ Len(ReportItems) = 2
    /\ Len(state.consolidated_pricing.line_item_pricing) = 2
    /\ \A i \in 1..2 :
          state.consolidated_pricing.line_item_pricing[i].line_item
            = Get(state.line_item_matches[i], "line_item", "")
    /\ ReportItems[1].line_item = ReportItems[2].line_item
    /\ RowSum(ReportItems, "material_cost_inr")
         # state.final_response.summary.total_material_cost_inr

\* the pricing rows whose line_item is the text
RowsOfText(text) ==
    SelectSeq(state.consolidated_pricing.line_item_pricing,
              LAMBDA row : row.line_item = text)

\* the six pricing values of a merged row or a pricing row
SixValues(row) ==
    <<row.unit_price_inr, row.moq_meters, row.material_cost_inr,
      row.applicable_tests, row.test_cost_inr, row.line_total_inr>>

\* C12: the report has one merged row per entry of line_item_matches, in the
\* same order; a line item without a pricing row of the identical text is
\* emitted with the five amounts 0 and applicable_tests empty; a line item
\* with such a row carries the six pricing values of that row (of the last
\* one, when several rows have the text).
C12_OneRowPerLineItem ==
    Reported =>
        /\ Len(ReportItems) = Len(state.line_item_matches)
        /\ \A i \in 1..Len(ReportItems) :
            /\ ReportItems[i].line_item
                 = Get(state.line_item_matches[i], "line_item", "")
            /\ ReportItems[i].selected_sku
                 = Get(state.line_item_matches[i], "selected_sku", EmptyDict)
            /\ \A rows \in {RowsOfText(ReportItems[i].line_item)} :
                  IF rows = <<>>
                  THEN SixValues(ReportItems[i]) = <<0, 0, 0, <<>>, 0, 0>>
                  ELSE SixValues(ReportItems[i]) = SixValues(rows[Len(rows)])

\* a report with a line item that has no pricing row, after one that has two
C12_Witness ==
    /\ Reported
    /\ Len(ReportItems) = 2
    /\ Len(RowsOfText(ReportItems[1].line_item)) = 2
    /\ ReportItems[1].material_cost_inr > 0
    /\ RowsOfText(ReportItems[2].line_item) = <<>>
    /\ ReportItems[2].line_total_inr = 0

-----------------------------------------------------------------------------
(* sales_agent (agents/sales_agent.py) and the run of the compiled graph.   *)
(* args.web is what the scraper API answers for each site URL: a status and *)
(* a list of raw tenders.  The tenders database                             *)
(* (services/supabase_client.py) is outside the state modelled here.        *)

DEFAULT_URL == "https://tender-frontend-eight.vercel.app"

\* the scraper's answer: its HTTP status and the tenders of its JSON body
Response(status_code, tenders) == [status_code |-> status_code, tenders |-> tenders]

\* fetch_tenders_from_url: the tenders of the answer, [] when the status is
\* not 200 or the request raised
fetch_tenders_from_url(web, url) ==
    IF url \notin DOMAIN web \/ web[url].status_code # 200 THEN <<>>
    ELSE web[url].tenders

\* parse_date: the datetime (its hour) or None; every parseable deadline of
\* the model is a date
parse_date(date_str) ==
    IF date_str.kind = "date" THEN [hour |-> Midnight(date_str)] ELSE None

\* state.get("source_urls") or [DEFAULT_URL]; app.py always passes a list,
\* so the branch that wraps a single string is not taken
SourceUrls(st) ==
    IF "source_urls" \notin DOMAIN st THEN <<DEFAULT_URL>>
    ELSE IF st.source_urls = <<>> THEN <<DEFAULT_URL>> ELSE st.source_urls

RECURSIVE Pooled(_, _, _)
\* all_raw_rfps: the tenders of the first n URLs, each tagged with its URL
Pooled(web, urls, n) ==
    IF n = 0 THEN <<>>
    ELSE LET tenders == fetch_tenders_from_url(web, urls[n])
         IN Pooled(web, urls, n - 1)
              \o List([i \in 1..Len(tenders) |->
                          Update(tenders[i], [_source_url |-> urls[n]])],
                      Len(tenders))

\* whether today <= due_date <= three_months
InWindow(due_date) ==
    /\ due_date # None
    /\ Now <= due_date.hour
    /\ due_date.hour <= Now + 90 * HoursPerDay

\* the dict appended to upcoming for one raw tender
UpcomingEntry(rfp) ==
    LET sections == Get(rfp, "sections", EmptyDict)
    IN [projectName |-> Get(rfp, "project_name", None),
        issued_by |-> Get(rfp, "issued_by", None),
        category |-> Get(rfp, "category", None),
        submissionDeadline |-> Get(rfp, "submission_deadline", NoDeadline),
        _due_date |-> parse_date(Get(rfp, "submission_deadline", NoDeadline)),
        _source_url |-> Get(rfp, "_source_url", ""),
        project_overview |-> Get(sections, "1. Project Overview", ""),
        scope_of_supply |-> Get(sections, "2. Scope of Supply", ""),
        technical_specifications |-> Get(sections, "3. Technical Specifications", ""),
        testing_requirements |->
            Get(sections, "4. Acceptance & Test Requirements", ""),
        delivery_timeline |-> Get(sections, "5. Delivery Timeline", ""),
        pricing_details |-> Get(sections, "6. Pricing Details", ""),
        evaluation_criteria |-> Get(sections, "7. Evaluation Criteria", ""),
        submission_format |-> Get(sections, "8. Submission Format", "")]

\* the list upcoming, built from all_raw_rfps
Upcoming(all_raw_rfps) ==
    LET kept == SelectSeq(all_raw_rfps, LAMBDA rfp :
                    InWindow(parse_date(Get(rfp, "submission_deadline", NoDeadline))))
    IN List([i \in 1..Len(kept) |-> UpcomingEntry(kept[i])], Len(kept))

\* fault variant of MinByDueDate: the first entry of upcoming, whatever its
\* due date
MinByDueDateFirst(upcoming) == upcoming[1]

\* min(upcoming, key=_due_date): the first entry with the least due date
MinByDueDate(upcoming) ==
    upcoming[CHOOSE i \in 1..Len(upcoming) :
                /\ \A j \in 1..Len(upcoming) :
                        upcoming[i]._due_date.hour <= upcoming[j]._due_date.hour
                /\ \A j \in 1..(i - 1) :
                        upcoming[j]._due_date # upcoming[i]._due_date]

\* d.pop("_due_date"); d.pop("_source_url")
PopInternal(d) == [k \in DOMAIN d \ {"_due_date", "_source_url"} |-> d[k]]

SalesAgent ==
    /\ pc = "sales"
    /\ pc' = NextNode("sales")
    /\ LET all_raw_rfps == Pooled(args.web, SourceUrls(state), Len(SourceUrls(state)))
           upcoming == Upcoming(all_raw_rfps)
       IN IF all_raw_rfps = <<>>
          THEN /\ state' = Update(state, [rfps |-> <<>>])
               /\ frame' = [all_raw_rfps |-> all_raw_rfps]
          ELSE IF upcoming = <<>>
          THEN /\ state' = Update(state, [rfps |-> <<>>])
               /\ frame' = [all_raw_rfps |-> all_raw_rfps, upcoming |-> upcoming]
          ELSE /\ state' = Update(state,
                        [rfps |-> <<PopInternal(MinByDueDate(upcoming))>>])
               /\ frame' = [all_raw_rfps |-> all_raw_rfps,
                            upcoming |-> List([i \in 1..Len(upcoming) |->
                                                PopInternal(upcoming[i])],
                                              Len(upcoming)),
                            selected |-> PopInternal(MinByDueDate(upcoming))]
    /\ result' = None
    /\ UNCHANGED args

\* a raw tender as the scraper returns it
RawTender(name, scope, techspec, deadline) ==
    [project_name |-> name, issued_by |-> "Utility", category |-> "Cables",
     submission_deadline |-> deadline,
     sections |-> [k \in {"2. Scope of Supply", "3. Technical Specifications",
                          "4. Acceptance & Test Requirements"} |->
                     CASE k = "2. Scope of Supply" -> scope
                       [] k = "3. Technical Specifications" -> techspec
                       [] OTHER -> "routine test and type test as per IS 7098"]]

\* tenders due inside the 90-day window, outside it, today and without a
\* parseable deadline
TenderPool ==
    {RawTender("HT", "11 kV XLPE copper cable", "IS 7098", DateStr(Today + 30)),
     RawTender("LT", "LT PVC aluminium cable 1.1 kV", "", DateStr(Today + 5)),
     RawTender("Late", "11 kV XLPE copper cable", "", DateStr(Today + 91)),
     RawTender("Now", "LT PVC aluminium cable 1.1 kV", "", DateStr(Today)),
     RawTender("Bad", "11 kV XLPE copper cable", "", BadDeadline)}

SiteAnswers ==
    {Response(200, t) : t \in SeqsUpTo(TenderPool, MaxTenders)}
        \cup {Response(500, <<>>)}

\* what a second site answers: a failure or one tender
SecondSiteAnswers ==
    {Response(200, <<t>>) : t \in TenderPool} \cup {Response(500, <<>>)}

\* the RFP process_tender_data injects for an uploaded PDF
UploadedRfp ==
    Update(Rfp("Uploaded Tender", "11 kV XLPE copper cable", "IS 7098", NoDeadline),
           [issued_by |-> "Unknown", category |-> "General"])

\* the initial states of the graph: of process_tender_urls (source_urls
\* given) and of process_tender_data (rfps given), in app.py
InitialStates ==
    {[product_db |-> ProductDB, test_services_db |-> TestServicesDB,
      source_urls |-> urls] : urls \in {<<"siteA">>, <<"siteA", "siteB">>, <<>>}}
    \cup {[product_db |-> ProductDB, test_services_db |-> TestServicesDB,
           rfps |-> <<UploadedRfp>>]}

\* what the scraper answers for the URLs of the list urls
Webs(urls) ==
    {[u \in {urls[i] : i \in 1..Len(urls)} |-> IF u = "siteB" THEN b ELSE a] :
        a \in SiteAnswers, b \in SecondSiteAnswers}

\* args holds the state passed to graph.invoke and the scraper's answers
Init ==
    /\ pc = "sales"
    /\ state \in InitialStates
    /\ args \in {[state |-> state, web |-> w] : w \in Webs(SourceUrls(state))}
    /\ frame = EmptyDict
    /\ result = None

Next ==
    \/ SalesAgent
    \/ MasterAgentStart
    \/ TechnicalAgent
    \/ PricingAgent
    \/ MasterAgentConsolidate

Spec == Init /\ [][Next]_vars

\* the nodes of the graph
Nodes == {"sales", "master_start", "technical", "pricing", "master_consolidate"}

\* the node the graph is at returns, or raises
NodeReturns == pc \in Nodes /\ pc' \in (Nodes \cup {"done", "raised"}) \ {pc}

\* graph.invoke runs the node it is at until the node returns
SpecLive == Spec /\ WF_pc(NodeReturns)

\* C2 as stated: whenever the sales stage finds k >= 2 tenders in the window,
\* the list rfps that master_agent_start receives has k elements.
C2_AllShortlistedReachMaster ==
    (pc = "master_start" /\ "upcoming" \in DOMAIN frame /\ Len(frame.upcoming) >= 2)
        => Len(state.rfps) = Len(frame.upcoming)

\* what the code does instead: two or more tenders are in the window and the
\* list handed to master_agent_start holds one of them
C2_OnlyOneReachesMaster ==
    /\ pc = "master_start"
    /\ "upcoming" \in DOMAIN frame
    /\ Len(frame.upcoming) >= 2
    /\ Len(state.rfps) = 1

\* the tenders the scraper delivered: those of every source URL that
\* answered with status 200
ScrapedTenders ==
    LET urls == SourceUrls(args.state)
    IN UNION {{args.web[urls[n]].tenders[i] : i \in 1..Len(args.web[urls[n]].tenders)} :
                n \in {m \in 1..Len(urls) : args.web[urls[m]].status_code = 200}}

\* the scraped tenders whose deadline parses and lies between today, the
\* datetime at which sales_agent runs, and 90 days later
ScrapedInWindow ==
    {t \in ScrapedTenders :
        /\ t.submission_deadline.kind = "date"
        /\ Now <= t.submission_deadline.day * HoursPerDay
        /\ t.submission_deadline.day * HoursPerDay <= Now + 90 * HoursPerDay}

\* C27: when sales_agent has returned, state["rfps"] is empty or holds exactly
\* one RFP; that RFP is a scraped tender whose deadline d parses and satisfies
\* today <= d <= today + 90 days (today being datetime.today() of the run), and
\* no scraped tender inside that window, of any source URL, is due strictly
\* earlier; a tender with a missing or unparseable deadline is never the one
\* selected; and whenever some URL that answered delivers a tender inside the
\* window, a tender is selected, whether or not another URL failed.
C27_EarliestInWindowSelected ==
    pc = "master_start" =>
        /\ "rfps" \in DOMAIN state
        /\ Len(state.rfps) <= 1
        /\ Len(state.rfps) = 1 =>
              \E t \in ScrapedInWindow :
                  /\ state.rfps[1].projectName = t.project_name
                  /\ state.rfps[1].submissionDeadline = t.submission_deadline
                  /\ \A o \in ScrapedInWindow :
                        o.submission_deadline.day >= t.submission_deadline.day
        /\ ScrapedInWindow # {} => Len(state.rfps) = 1

\* sales_agent has returned after the first of two URLs failed and the second
\* delivered a tender inside the window, which is selected, while a tender
\* of the model's pool due today at midnight or without a parseable deadline
\* is among the answers of some run
C27_Witness ==
    /\ pc = "master_start"
    /\ Len(SourceUrls(args.state)) = 2
    /\ args.web["siteA"].status_code = 500
    /\ args.web["siteB"].status_code = 200
    /\ ScrapedInWindow # {}
    /\ Len(state.rfps) = 1

\* sales_agent has returned having passed over an earlier tender that is not
\* inside the window and a tender without a parseable deadline
C27_PassedOver ==
    /\ pc = "master_start"
    /\ Len(state.rfps) = 1
    /\ \E t \in ScrapedTenders : t.submission_deadline.kind = "invalid"
    /\ \E t \in ScrapedTenders :
          /\ t.submission_deadline.kind = "date"
          /\ t.submission_deadline.day = Today

-----------------------------------------------------------------------------
(* The run of the graph: what the stages hand to one another                *)

\* the run has finished: the last node has returned
Finished == pc = "done"

\* the matches technical_agent recorded for the selected RFP, the one RFP of
\* state["rfps"]
SelectedTechMatches ==
    IF "tech_matches" \in DOMAIN state /\ state.tech_matches # <<>>
    THEN state.tech_matches[1]
    ELSE <<>>

\* C13 as stated: once the technical stage has recorded a product match for
\* the selected RFP, the pricing stage sees a non-empty list of line-item
\* results, consolidated_pricing.line_item_pricing is non-empty and the final
\* report has at least one line item
C13_PricingPricesTechnicalMatches ==
    SelectedTechMatches # <<>> =>
        /\ pc = "pricing" => Get(state, "line_item_matches", <<>>) # <<>>
        /\ pc \in {"master_consolidate", "done"} =>
              state.consolidated_pricing.line_item_pricing # <<>>
        /\ Finished => state.final_response.line_items # <<>>

\* what the code does: a finished run with product matches recorded, nothing
\* priced and no line item in the report
C13_MatchesNeverPriced ==
    /\ Finished
    /\ SelectedTechMatches # <<>>
    /\ "line_item_matches" \notin DOMAIN state
    /\ state.consolidated_pricing.line_item_pricing = <<>>
    /\ state.final_response.line_items = <<>>

\* the selected match of the r-th line-item result of the state, None when
\* the state holds none
SelectedMatch(r) ==
    IF "line_item_matches" \in DOMAIN state /\ r <= Len(state.line_item_matches)
    THEN Get(state.line_item_matches[r], "selected_sku", None)
    ELSE None

\* the line items of the final response
ReportLineItems == Get(Get(state, "final_response", EmptyDict), "line_items", <<>>)

\* C23 as stated: once the technical stage has run, the selected match of
\* every line-item result is the top entry of the item's list of matches when
\* that list is non-empty and absent when it is empty; and in the final
\* response the selected_sku of every line item is the top entry of its
\* top_3_recommendations, or absent when there are none
C23_SelectedIsTopOfList ==
    /\ "tech_matches" \in DOMAIN state =>
          \A r \in 1..Len(state.tech_matches) :
              IF state.tech_matches[r] = <<>>
              THEN Falsy(SelectedMatch(r))
              ELSE SelectedMatch(r) = state.tech_matches[r][1]
    /\ \A n \in 1..Len(ReportLineItems) :
          IF ReportLineItems[n].top_3_recommendations = <<>>
          THEN Falsy(ReportLineItems[n].selected_sku)
          ELSE ReportLineItems[n].selected_sku
                  = ReportLineItems[n].top_3_recommendations[1]

\* what the code does: the technical stage has recorded matches and the
\* state holds no selected match for them
C23_NoMatchSelected ==
    /\ pc = "pricing"
    /\ SelectedTechMatches # <<>>
    /\ Falsy(SelectedMatch(1))

\* C26: in a run of the graph product_db and test_services_db stay what
\* they were when the run started, through every stage, and
\* master_agent_start leaves state["rfps"] and every record in it as it
\* found them.
C26_CatalogsUnchanged ==
    /\ [](/\ {"product_db", "test_services_db"} \subseteq DOMAIN state
          /\ state.product_db = args.state.product_db
          /\ state.test_services_db = args.state.test_services_db)
    /\ [][pc = "master_start" =>
            ("rfps" \in DOMAIN state' /\ state'.rfps = state.rfps)]_vars

\* a finished run that selected an RFP and wrote a report
C26_Witness ==
    /\ Finished
    /\ state.rfps # <<>>
    /\ state.selected_rfp = state.rfps[1]
    /\ state.final_response # EmptyDict
    /\ state.product_db = ProductDB

\* the run is of process_tender_data: an RFP was injected as state["rfps"]
Uploaded == "rfps" \in DOMAIN args.state

\* C14 as stated: in the upload flow the injected RFP is the RFP that
\* master_agent_start selects and that the final response describes
C14_UploadedRfpIsSelected ==
    Uploaded =>
        /\ pc \in {"technical", "pricing", "master_consolidate", "done"} =>
              state.selected_rfp = args.state.rfps[1]
        /\ Finished =>
              Get(state.final_response, "project_name", "")
                  = args.state.rfps[1].projectName

\* what the code does: the run of an upload ends with a scraped tender
\* selected, or with none
C14_UploadDiscarded ==
    /\ Uploaded
    /\ Finished
    /\ state.selected_rfp # args.state.rfps[1]

\* the edges of the graph, written out
StageOrder ==
    \/ pc = "sales" /\ pc' = "master_start"
    \/ pc = "master_start" /\ pc' = "technical"
    \/ pc = "technical" /\ pc' = "pricing"
    \/ pc = "pricing" /\ pc' = "master_consolidate"
    \/ pc = "master_consolidate" /\ pc' = "done"

\* the stage that owns each key of the state
Owner ==
    [rfps |-> "sales", selected_rfp |-> "master_start",
     rfp_score |-> "master_start", tech_matches |-> "technical",
     consolidated_pricing |-> "pricing", final_response |-> "master_consolidate"]

\* the step sets the key k, or changes its value
Written(k) ==
    /\ k \in DOMAIN state'
    /\ k \in DOMAIN state => state'[k] # state[k]

\* the keys among those of Owner that each stage reads
Reads ==
    [sales |-> {}, master_start |-> {"rfps"}, technical |-> {"rfps"},
     pricing |-> {},
     master_consolidate |-> {"selected_rfp", "rfp_score", "consolidated_pricing"},
     done |-> DOMAIN Owner]

\* C15: the stages run in the order sales, master_start, technical, pricing,
\* master_consolidate, one at a time and once each, and the run then ends;
\* each key is written by its owning stage only, and each key a stage reads
\* has been written before the stage runs
C15_StrictSequence ==
    /\ [][StageOrder /\ \A k \in DOMAIN Owner : Written(k) => pc = Owner[k]]_vars
    /\ [](pc \in DOMAIN Reads /\ Reads[pc] \subseteq DOMAIN state)
    /\ <>Finished

C15_Witness ==
    /\ Finished
    /\ DOMAIN Owner \subseteq DOMAIN state
    /\ state.final_response # EmptyDict

\* the stages that run after master_start, technical and pricing
AfterMasterStart == {"technical", "pricing", "master_consolidate", "done"}

AfterTechnical == {"pricing", "master_consolidate", "done"}

AfterPricing == {"master_consolidate", "done"}

\* the sales agent found no RFP
NoRfps == pc # "sales" /\ state.rfps = <<>>

\* C16: with no RFPs no stage raises; master_agent_start sets selected_rfp
\* to None and rfp_score, technical_summary and pricing_summary to empty,
\* the technical stage yields no matches, pricing_agent writes an empty row
\* list and three totals of 0, and master_agent_consolidate writes an empty
\* final_response and pdf_path None
C16_EmptyPropagates ==
    NoRfps =>
        /\ pc # "raised"
        /\ pc \in AfterMasterStart =>
              /\ state.selected_rfp = None
              /\ state.rfp_score = EmptyDict
              /\ state.technical_summary = EmptyDict
              /\ state.pricing_summary = EmptyDict
        /\ pc \in AfterTechnical => state.tech_matches = <<>>
        /\ pc \in AfterPricing =>
              state.consolidated_pricing
                  = [line_item_pricing |-> <<>>, total_material_cost |-> 0,
                     total_test_cost |-> 0, grand_total |-> 0]
        /\ Finished =>
              /\ state.final_response = EmptyDict
              /\ state.pdf_path = None

C16_Witness ==
    /\ NoRfps
    /\ Finished
    /\ state.final_response = EmptyDict
    /\ state.pdf_path = None

-----------------------------------------------------------------------------
(* move_expired_tenders (services/supabase_client.py).  state holds the two *)
(* tables "tenders" and "expired_tenders", rows in insertion order; args    *)
(* the tables as they were before the runs; frame, for each run, where the  *)
(* run is at and its locals expired.data and the index of row in it.  Runs  *)
(* are started by concurrent requests and interleave.  A request to the     *)
(* database takes effect, or raises and changes nothing.                    *)

\* a row of the table tenders
TenderRow(id, project_name, submission_deadline) ==
    [id |-> id, project_name |-> project_name,
     submission_deadline |-> submission_deadline]

\* Fault variant: the filter also takes the rows due today.
IsExpiredOrDueToday(row) ==
    /\ row.submission_deadline.kind = "date"
    /\ row.submission_deadline.day <= Today

\* .lt("submission_deadline", today_str), today_str = date.today().isoformat();
\* the database compares the column as a date
IsExpired(row) ==
    /\ row.submission_deadline.kind = "date"
    /\ row.submission_deadline.day < Today

\* expired_row: the row without its id (expired_at is left out)
ExpiredRow(row) ==
    [project_name |-> row.project_name,
     submission_deadline |-> row.submission_deadline]

\* the runs of move_expired_tenders
Runs == {"first", "second"}

\* the locals of a run that is at the place at
RunAt(at, expired, i) == [at |-> at, expired |-> expired, i |-> i]

\* the names and deadlines of the rows sales_agent upserted on earlier days
RowPool ==
    {<<"Old", DateStr(Today - 10)>>, <<"Yesterday", DateStr(Today - 1)>>,
     <<"DueToday", DateStr(Today)>>, <<"Open", DateStr(Today + 5)>>}

\* the tables before the runs: rows with distinct ids, of which several may
\* hold the same tender, and possibly a copy left by an earlier run
TablesBefore ==
    {[tenders |-> List([i \in 1..Len(t) |-> TenderRow(i, t[i][1], t[i][2])], Len(t)),
      expired_tenders |-> e] :
        t \in SeqsUpTo(RowPool, MaxTenders),
        e \in {<<>>, <<ExpiredRow(TenderRow(0, "Old", DateStr(Today - 10)))>>}}

InitExpiry ==
    /\ pc = "move_expired_tenders"
    /\ state \in TablesBefore
    /\ args = state
    /\ frame = [r \in Runs |-> RunAt("start", <<>>, 0)]
    /\ result = None

\* get_supabase_client() returns None, or the select raises: the run returns
\* and has changed nothing
SelectFails(r) ==
    /\ frame[r].at = "start"
    /\ frame' = [frame EXCEPT ![r] = RunAt("returned", <<>>, 0)]
    /\ UNCHANGED <<pc, state, args, result>>

\* the select of the rows with a deadline before today; the run returns when
\* there is none
SelectExpired(r) ==
    /\ frame[r].at = "start"
    /\ LET expired == SelectSeq(state.tenders, IsExpired)
       IN frame' = [frame EXCEPT ![r] =
                       IF expired = <<>> THEN RunAt("returned", expired, 0)
                       ELSE RunAt("insert", expired, 1)]
    /\ UNCHANGED <<pc, state, args, result>>

\* sb.table("expired_tenders").insert(expired_row).execute(), or its exception,
\* which ends the loop
InsertExpired(r) ==
    /\ frame[r].at = "insert"
    /\ \/ /\ state' = [state EXCEPT !.expired_tenders =
                          Append(@, ExpiredRow(frame[r].expired[frame[r].i]))]
          /\ frame' = [frame EXCEPT ![r].at = "delete"]
       \/ /\ state' = state
          /\ frame' = [frame EXCEPT ![r].at = "returned"]
    /\ UNCHANGED <<pc, args, result>>

\* sb.table("tenders").delete().eq("id", row["id"]).execute(), or its
\* exception, which ends the loop; after the last row the run returns
DeleteTender(r) ==
    /\ frame[r].at = "delete"
    /\ \/ /\ state' = [state EXCEPT !.tenders =
                          SelectSeq(@, LAMBDA row :
                              row.id # frame[r].expired[frame[r].i].id)]
          /\ frame' = [frame EXCEPT ![r] =
                          IF @.i = Len(@.expired) THEN RunAt("returned", @.expired, @.i)
                          ELSE RunAt("insert", @.expired, @.i + 1)]
       \/ /\ state' = state
          /\ frame' = [frame EXCEPT ![r].at = "returned"]
    /\ UNCHANGED <<pc, args, result>>

NextExpiry ==
    \E r \in Runs :
        \/ SelectFails(r)
        \/ SelectExpired(r)
        \/ InsertExpired(r)
        \/ DeleteTender(r)

SpecExpiry == InitExpiry /\ [][NextExpiry]_vars

\* how many rows of the table hold the tender of the row
CopiesIn(table, row) ==
    Cardinality({i \in 1..Len(table) : ExpiredRow(table[i]) = ExpiredRow(row)})

\* the row's deadline is before today
DueBeforeToday(row) == row.submission_deadline.day < Today

\* C30: in every state during or after the runs of move_expired_tenders,
\* whatever insert or delete failed, every tender that was in tenders before
\* the runs is in tenders or in expired_tenders (the two tables together hold
\* at least as many rows of it as before); a row leaves tenders only when a
\* copy of it is already in expired_tenders; and a row whose deadline is not
\* before today is never removed from tenders.
C30_NoTenderLost ==
    /\ [](\A k \in 1..Len(args.tenders) :
            LET row == args.tenders[k]
            IN /\ CopiesIn(state.tenders, row) + CopiesIn(state.expired_tenders, row)
                    >= CopiesIn(args.tenders, row) + CopiesIn(args.expired_tenders, row)
               /\ ~DueBeforeToday(row) =>
                     \E i \in 1..Len(state.tenders) : state.tenders[i] = row)
    /\ [][\A i \in 1..Len(state.tenders) :
            (\A j \in 1..Len(state'.tenders) : state'.tenders[j] # state.tenders[i])
                => CopiesIn(state.expired_tenders, state.tenders[i])
                      > CopiesIn(args.expired_tenders, state.tenders[i])]_vars

\* both runs have returned, one of them after its delete failed; the table
\* held an expired tender and a tender due today: the expired one is in both
\* tables and the one due today is still in tenders
C30_Witness ==
    /\ \A r \in Runs : frame[r].at = "returned"
    /\ \E r \in Runs : frame[r].expired # <<>> /\ frame[r].i = 1
    /\ Len(args.tenders) = 2
    /\ DueBeforeToday(args.tenders[1])
    /\ args.tenders[2].submission_deadline = DateStr(Today)
    /\ state.tenders = args.tenders
    /\ Len(state.expired_tenders) > Len(args.expired_tenders)

\* both runs have returned and every expired tender has been moved
C30_AllMoved ==
    /\ \A r \in Runs : frame[r].at = "returned"
    /\ \E k \in 1..Len(args.tenders) : DueBeforeToday(args.tenders[k])
    /\ \A i \in 1..Len(state.tenders) : ~DueBeforeToday(state.tenders[i])

=============================================================================
